---- MODULE Spec2Model ----
(***************************************************************************)
(* A model of the dungeon generator of src/randommap/map8.py: the room     *)
(* placement loop and the corridor builder of generate_dungeon, the        *)
(* elevation and feature fields of generate_height_map, the entrance/exit  *)
(* selection, the height-constrained breadth-first search, the height      *)
(* repair loop, the monster placement, and the script's retry loop and     *)
(* export section.                                                         *)
(*                                                                         *)
(* Cells are <<row, column>> pairs, 0-based, as the script indexes its     *)
(* numpy arrays.  A room is <<x, y, w, h>> as in the script.  Every draw   *)
(* from the pseudo-random generators is a nondeterministic choice from the *)
(* range the call can return.  cfg holds the parameters of the functions   *)
(* (the script passes its own values of them; the model instantiates them  *)
(* with small canvases).                                                   *)
(***************************************************************************)
EXTENDS Integers, Sequences, FiniteSets, TLC

VARIABLES
    cfg,               \* the parameters of the generation functions
    pc,                \* the script's position
    dungeon_attempt,   \* the loop variable of the script's retry loop
    attempts,          \* generate_dungeon's placement attempts counter
    dungeon,           \* the set of floor cells (dungeon[y, x] == 1)
    rooms,             \* the list of accepted rooms
    corridors,         \* the list of corridor point sets
    mst_edges,         \* the room pairs generate_dungeon's first loop connected
    extra_edges,       \* the room pairs its second loop connected
    height_map,        \* cell -> elevation
    feature_map,       \* cell -> feature tag (as stored in the int array)
    entrance,          \* <<row, col>> or None
    exit_coords,       \* <<row, col>> or None
    attempt,           \* ensure_path_exists's loop variable
    problematic_points, \* the offending edges its last failed search returned
    path,              \* the path of the current attempt, or None
    monsters,          \* the monsters of the current attempt, or None
    final_dungeon, final_rooms, final_path, final_height_map,
    final_feature_map, final_entrance, final_exit, final_monsters,
    artifacts          \* the export artifacts written, or None

vars == <<cfg, pc, dungeon_attempt, attempts, dungeon, rooms, corridors, mst_edges,
          extra_edges,
          height_map, feature_map, entrance, exit_coords, attempt,
          problematic_points, path,
          monsters, final_dungeon, final_rooms, final_path, final_height_map,
          final_feature_map, final_entrance, final_exit, final_monsters,
          artifacts>>

attemptVars == <<dungeon, rooms, corridors, mst_edges, extra_edges,
                 height_map, feature_map, entrance,
                 exit_coords, attempt, problematic_points, path, monsters>>

finalVars == <<final_dungeon, final_rooms, final_path, final_height_map,
               final_feature_map, final_entrance, final_exit, final_monsters>>

\* Python's None.  A path, a list of monsters or a coordinate pair that is set
\* is never empty where the script tests it against None.
None == <<>>

(***************************************************************************)
(* Feature tags.  FEATURE_MONSTER_WEAK is 5/2 and FEATURE_MONSTER_STRONG   *)
(* is 8/2 in the script; the tiers are named here and StoredTag gives the  *)
(* value the integer array feature_map keeps of each.                      *)
(***************************************************************************)
FEATURE_NONE == 0
FEATURE_TRAP == 2
FEATURE_SECRET_HINT == 2
FEATURE_OBSTACLE == 3
FEATURE_BRIDGE == 4
FEATURE_ENTRANCE == 5
FEATURE_EXIT == 6
FEATURE_PATH == 7
FEATURE_TREASURE == 8
FEATURE_MONSTER_BOSS == 1

\* The script's loop bounds and radii.
max_dungeon_attempts == 5
max_attempts_rooms == 200
max_attempts == 10
safe_zone_radius == 3
monster_attempts == 50

\* ------------------------------------------------------------ arithmetic

Abs(n) == IF n < 0 THEN -n ELSE n
Min(a, b) == IF a <= b THEN a ELSE b
Max(a, b) == IF a >= b THEN a ELSE b

Cells == (0 .. cfg.height - 1) \X (0 .. cfg.width - 1)
InBounds(y, x) == 0 <= y /\ y < cfg.height /\ 0 <= x /\ x < cfg.width

\* The cells of a set in row-major order (np.argwhere, nested range loops).
RECURSIVE RowMajor(_)
RowMajor(S) ==
    IF S = {} THEN <<>>
    ELSE LET c == CHOOSE a \in S : \A b \in S :
                      a[1] < b[1] \/ (a[1] = b[1] /\ a[2] <= b[2])
         IN <<c>> \o RowMajor(S \ {c})

\* ------------------------------------------------------- generate_dungeon

RoomCells(r) == {<<y, x>> : y \in r[2] .. r[2] + r[4] - 1,
                            x \in r[1] .. r[1] + r[3] - 1}

\* A variant of the rejection test that only rejects cells in common.
TooCloseOverlapOnly(x, y, w, h, r, d) ==
    ~(x + w <= r[1] \/ r[1] + r[3] <= x \/
      y + h <= r[2] \/ r[2] + r[4] <= y)

\* The rejection test of the placement loop: candidate <<x, y, w, h>> against
\* an accepted room.
TooClose(x, y, w, h, r, d) ==
    ~(x + w + d <= r[1] \/ r[1] + r[3] + d <= x \/
      y + h + d <= r[2] \/ r[2] + r[4] + d <= y)

room_centers(rs) == [i \in 1 .. Len(rs) |->
                        <<rs[i][1] + rs[i][3] \div 2, rs[i][2] + rs[i][4] \div 2>>]

Manhattan(a, b) == Abs(a[1] - b[1]) + Abs(a[2] - b[2])

\* The column (or row) offset create_corridor draws a segment at.  Its inner
\* loop "for offset in range(width): px=x1+offset;" holds only the
\* assignment; the bounds test and the marking follow the loop, once per cell
\* of the segment, with the last offset.
LastOffset(width) == width - 1

VLine(px, ya, yb) ==
    {c \in {<<cy, px>> : cy \in Min(ya, yb) .. Max(ya, yb)} : InBounds(c[1], c[2])}
HLine(py, xa, xb) ==
    {c \in {<<py, cx>> : cx \in Min(xa, xb) .. Max(xa, xb)} : InBounds(c[1], c[2])}

\* The point sets create_corridor can return for one call: the two L shapes
\* (rand < 0.7, then rand < 0.5 or not) and the Z shapes through a drawn
\* <<mid_x, mid_y>>.
create_corridor(x1, y1, x2, y2, width) ==
    LET off == LastOffset(width)
        mids_x == IF x1 # x2 THEN Min(x1, x2) .. Max(x1, x2) ELSE {x1}
        mids_y == IF y1 # y2 THEN Min(y1, y2) .. Max(y1, y2) ELSE {y1}
    IN  {VLine(x1 + off, y1, y2) \cup HLine(y2 + off, x1, x2),
         HLine(y1 + off, x1, x2) \cup VLine(x2 + off, y1, y2)}
        \cup
        {VLine(x1 + off, y1, mid_y) \cup HLine(mid_y + off, x1, mid_x)
           \cup VLine(mid_x + off, mid_y, y2) \cup HLine(y2 + off, mid_x, x2)
           : mid_x \in mids_x, mid_y \in mids_y}

\* All room pairs <<dist, i, j>>, i < j (0-based as in the script), in the
\* order edges.sort() leaves them: ascending tuples.
EdgeLess(a, b) ==
    \/ a[1] < b[1]
    \/ a[1] = b[1] /\ a[2] < b[2]
    \/ a[1] = b[1] /\ a[2] = b[2] /\ a[3] < b[3]

RECURSIVE SortEdges(_)
SortEdges(S) ==
    IF S = {} THEN <<>>
    ELSE LET m == CHOOSE a \in S : \A b \in S \ {a} : EdgeLess(a, b)
         IN <<m>> \o SortEdges(S \ {m})

AllEdges(rs) ==
    LET ctr == room_centers(rs)
        pairs == {p \in (0 .. Len(rs) - 1) \X (0 .. Len(rs) - 1) : p[1] < p[2]}
    IN  SortEdges({<<Manhattan(ctr[p[1] + 1], ctr[p[2] + 1]), p[1], p[2]>> :
                     p \in pairs})

\* The corridors one edge can produce: a drawn width, a drawn shape.
EdgeCorridors(rs, e) ==
    LET ctr == room_centers(rs)
        a == ctr[e[2] + 1]
        b == ctr[e[3] + 1]
    IN  UNION {create_corridor(a[1], a[2], b[1], b[2], w) :
                 w \in cfg.corridor_width_options}

\* The first loop over the sorted edges: one pass, an edge taken when exactly
\* one of its rooms is connected.  The set of <<dungeon, corridors,
\* mst_edges_count, MST edges>> the pass can end with.
RECURSIVE MstLoop(_, _, _, _, _, _, _)
MstLoop(rs, edges, k, connected, dng, cors, taken) ==
    IF k > Len(edges) \/ Cardinality(connected) = Len(rs)
    THEN {[dungeon |-> dng, corridors |-> cors, mst_edges |-> taken]}
    ELSE LET e == edges[k]
             i == e[2]
             j == e[3]
         IN  IF (i \in connected /\ j \notin connected) \/
                (i \notin connected /\ j \in connected)
             THEN UNION {MstLoop(rs, edges, k + 1, connected \cup {i, j},
                                 dng \cup points,
                                 IF points # {} THEN Append(cors, points) ELSE cors,
                                 Append(taken, e))
                           : points \in EdgeCorridors(rs, e)}
             ELSE MstLoop(rs, edges, k + 1, connected, dng, cors, taken)

\* int(len(remaining_edges) * extra_connection_prob), the probability given
\* in percent.
NumExtra(n) == (n * cfg.extra_connection_prob) \div 100

\* remaining_edges = edges[mst_edges_count:], shuffled; the first
\* num_extra_connections of them get a corridor.  The set of <<dungeon,
\* corridors, extra edges>> outcomes from one outcome of the first loop.
RECURSIVE ExtraLoop(_, _, _, _, _, _)
ExtraLoop(rs, remaining, n, dng, cors, extra) ==
    IF n = 0
    THEN {[dungeon |-> dng, corridors |-> cors, extra_edges |-> extra]}
    ELSE UNION {UNION {ExtraLoop(rs, remaining \ {e}, n - 1, dng \cup points,
                                 IF points # {} THEN Append(cors, points) ELSE cors,
                                 Append(extra, e))
                         : points \in EdgeCorridors(rs, e)}
                  : e \in remaining}

remaining_edges(edges, mst_edges_count) ==
    {edges[k] : k \in mst_edges_count + 1 .. Len(edges)}

\* generate_dungeon after the placement loop, for at least two rooms.
ConnectRooms(rs, dng) ==
    LET edges == AllEdges(rs)
    IN  UNION {LET rem == remaining_edges(edges, Len(m.mst_edges))
                   n == Min(NumExtra(Cardinality(rem)), Cardinality(rem))
               IN  {[dungeon |-> x.dungeon, corridors |-> x.corridors,
                     mst_edges |-> m.mst_edges, extra_edges |-> x.extra_edges]
                      : x \in ExtraLoop(rs, rem, n, m.dungeon, m.corridors, <<>>)}
                 : m \in MstLoop(rs, edges, 1, {0}, dng, <<>>, <<>>)}

\* ---------------------------------------------------- generate_height_map

\* Whether "np.random.rand() < p" can come out as b, p in percent.
Roll(p) == {b \in BOOLEAN : (b => p > 0) /\ (~b => p < 100)}

\* All functions on the cell set S that take at c a value of ch[c].
RECURSIVE FnsOver(_, _)
FnsOver(S, ch) ==
    IF S = {} THEN {<<>>}
    ELSE LET c == CHOOSE a \in S : TRUE
         IN  {(c :> v) @@ f : v \in ch[c], f \in FnsOver(S \ {c}, ch)}

IsRoomEdge(c, r) ==
    c[2] = r[1] \/ c[2] = r[1] + r[3] - 1 \/ c[1] = r[2] \/ c[1] = r[2] + r[4] - 1

\* "rx < c < rx + rw - 1 and ry < r < ry + rh - 1" for some room.
is_in_room_interior(c, rs) ==
    \E i \in 1 .. Len(rs) :
        /\ rs[i][1] < c[2] /\ c[2] < rs[i][1] + rs[i][3] - 1
        /\ rs[i][2] < c[1] /\ c[1] < rs[i][2] + rs[i][4] - 1

\* The elevation of floor cell c before the corridor pass: in a room (the
\* last room holding it wins), max(1, base + jitter) with the jitter of an
\* edge cell in -1..1 and of an inner cell in -1..0; elsewhere the scaled
\* noise, in 0..max_height-1.
PreHeights(c, rs, base) ==
    LET holders == {i \in 1 .. Len(rs) : c \in RoomCells(rs[i])}
    IN  IF holders = {}
        THEN 0 .. cfg.max_height - 1
        ELSE LET i == CHOOSE k \in holders : \A m \in holders : m <= k
             IN  {Max(1, base[i] + j) :
                    j \in IF IsRoomEdge(c, rs[i]) THEN -1 .. 1 ELSE -1 .. 0}

Clip(lo, hi, v) == Max(lo, Min(hi, v))

\* A variant of the directions in which the step to the right is missing.
DirectionsWithoutRight == <<<<-1, 0>>, <<1, 0>>, <<0, -1>>, <<0, -1>>>>

Neighbours4 == <<<<-1, 0>>, <<1, 0>>, <<0, -1>>, <<0, 1>>>>
Diagonals == {<<-1, -1>>, <<-1, 1>>, <<1, -1>>, <<1, 1>>}

IsFloor(dng, y, x) == InBounds(y, x) /\ <<y, x>> \in dng

\* The <<elevation, tag>> pairs the corridor pass can leave at floor cell c,
\* given the elevations pre it starts from.  The cell below is visited later
\* in the row-major scan, so below_far reads its elevation from pre.
CorridorPass(c, pre, dng, rs, corpts) ==
    IF c \notin corpts \/ is_in_room_interior(c, rs)
    THEN {<<pre[c], FEATURE_NONE>>}
    ELSE LET r == c[1]
             col == c[2]
             lo == cfg.corridor_height_range[1]
             hi == cfg.corridor_height_range[2]
             levelled == IF pre[c] = 0 THEN lo .. hi ELSE {Clip(lo, hi, pre[c])}
             is_surrounded ==
                 \A k \in 1 .. 4 :
                    LET n == <<r + Neighbours4[k][1], col + Neighbours4[k][2]>>
                    IN  IsFloor(dng, n[1], n[2]) /\ n \in corpts
             h_neighbors ==
                 IF 0 < col /\ col < cfg.width - 1
                 THEN (IF <<r, col - 1>> \in dng THEN 1 ELSE 0) +
                      (IF <<r, col + 1>> \in dng THEN 1 ELSE 0)
                 ELSE 0
             v_neighbors ==
                 IF 0 < r /\ r < cfg.height - 1
                 THEN (IF <<r - 1, col>> \in dng THEN 1 ELSE 0) +
                      (IF <<r + 1, col>> \in dng THEN 1 ELSE 0)
                 ELSE 0
             is_narrow == h_neighbors + v_neighbors = 2 /\ h_neighbors # 1
             below_empty == r + 1 < cfg.height /\ <<r + 1, col>> \notin dng
             below_far(h) == r + 1 < cfg.height /\ <<r + 1, col>> \in dng
                             /\ h - pre[<<r + 1, col>>] > 5
         IN  UNION {
               UNION {
                 IF b
                 THEN IF is_surrounded
                      THEN {<<h + bonus, FEATURE_OBSTACLE>> :
                              bonus \in cfg.obstacle_height_range[1] ..
                                        cfg.obstacle_height_range[2]}
                      ELSE {<<h, FEATURE_NONE>>}
                 ELSE IF is_narrow /\ (below_empty \/ below_far(h))
                      THEN {<<h, FEATURE_BRIDGE>>}
                      ELSE {<<h, FEATURE_NONE>>}
                 : b \in Roll(cfg.obstacle_prob)}
               : h \in levelled}

\* The tags the treasure loop and the trap / secret-hint loop can leave at
\* floor cell c that the corridor pass left tagged t.
LaterTags(c, t, dng, rs) ==
    LET inner == \E i \in 1 .. Len(rs) :
                    /\ rs[i][2] + 1 <= c[1] /\ c[1] <= rs[i][2] + rs[i][4] - 2
                    /\ rs[i][1] + 1 <= c[2] /\ c[2] <= rs[i][1] + rs[i][3] - 2
        t4 == IF t = FEATURE_NONE /\ inner
              THEN {IF b THEN FEATURE_TREASURE ELSE FEATURE_NONE :
                      b \in Roll(cfg.treasure_prob)}
              ELSE {t}
        live_neighbors ==
            Cardinality({k \in 1 .. 4 :
                IsFloor(dng, c[1] + Neighbours4[k][1], c[2] + Neighbours4[k][2])})
        is_on_edge ==
            \/ live_neighbors < 4
            \/ \E d \in Diagonals : ~IsFloor(dng, c[1] + d[1], c[2] + d[2])
        current_trap_prob ==
            IF live_neighbors = 2 /\ ~is_on_edge
            THEN cfg.trap_prob_corridor_center ELSE cfg.trap_prob_base
        t5(u) == IF u # FEATURE_NONE THEN {u}
                 ELSE IF live_neighbors = 1
                 THEN {IF b THEN FEATURE_SECRET_HINT ELSE FEATURE_NONE :
                         b \in Roll(cfg.secret_hint_prob)}
                 ELSE IF live_neighbors >= 2
                 THEN {IF b THEN FEATURE_TRAP ELSE FEATURE_NONE :
                         b \in Roll(current_trap_prob)}
                 ELSE {u}
    IN  UNION {t5(u) : u \in t4}

\* The <<height_map, feature_map>> pairs generate_height_map can return.
generate_height_map(dng, rs, cors) ==
    LET corpts == UNION {cors[k] : k \in 1 .. Len(cors)}
        bases == [1 .. Len(rs) -> 1 .. cfg.max_height]
        pres == UNION {FnsOver(dng, [c \in dng |-> PreHeights(c, rs, base)]) :
                         base \in bases}
        outcomes(pre) ==
            FnsOver(dng, [c \in dng |->
                UNION {{<<Max(o[1], 1), t>> : t \in LaterTags(c, o[2], dng, rs)} :
                         o \in CorridorPass(c, pre, dng, rs, corpts)}])
    IN  {<<[c \in Cells |-> IF c \in dng THEN f[c][1] ELSE 0],
           [c \in Cells |-> IF c \in dng THEN f[c][2] ELSE FEATURE_NONE]>> :
           f \in UNION {outcomes(pre) : pre \in pres}}

\* --------------------------------------------------- select_entrance_exit

\* A variant of the pair scan that keeps the first room twice.
first_room_twice(rs) == <<0, 0>>

\* The pair of room indices (0-based) the scan of all pairs keeps: the first
\* pair, in scan order, of the greatest centre distance.
farthest_pair(rs) ==
    LET ctr == room_centers(rs)
        pairs == {p \in (0 .. Len(rs) - 1) \X (0 .. Len(rs) - 1) : p[1] < p[2]}
        dist(p) == Manhattan(ctr[p[1] + 1], ctr[p[2] + 1])
        before(p, q) == p[1] < q[1] \/ (p[1] = q[1] /\ p[2] < q[2])
    IN  CHOOSE p \in pairs :
            \A q \in pairs \ {p} : dist(q) < dist(p) \/
                                   (dist(q) = dist(p) /\ before(p, q))

\* "np.random.randint(lo + 1, lo + size - 1) if size > 2 else lo"
InnerDraws(lo, size) == IF size > 2 THEN lo + 1 .. lo + size - 2 ELSE {lo}

Offsets8 == {d \in (-1 .. 1) \X (-1 .. 1) : d # <<0, 0>>}

\* The outcomes of select_entrance_exit: entrance, exit_coords and the two
\* fields as it leaves them.  With one room the exit is the cell to the right
\* of the room's centre cell; with none, neither is set.  With two or more,
\* the two rooms of farthest_pair differ, so the redraw loop for a shared
\* room is never entered.
select_entrance_exit(dng, rs, hm, fm) ==
    IF Len(rs) < 2
    THEN IF Len(rs) > 0
         THEN LET ex == rs[1][1] + rs[1][3] \div 2
                  ey == rs[1][2] + rs[1][4] \div 2
                  fm1 == [fm EXCEPT ![<<ey, ex>>] = FEATURE_ENTRANCE]
                  fm2 == [fm1 EXCEPT ![<<ey, ex + 1>>] = FEATURE_EXIT]
                  hm1 == [hm EXCEPT ![<<ey, ex>>] = Max(1, hm[<<ey, ex>>])]
                  hm2 == [hm1 EXCEPT ![<<ey, ex + 1>>] = 1]
              IN  {[entrance |-> <<ey, ex>>, exit_coords |-> <<ey, ex + 1>>,
                    height_map |-> hm2, feature_map |-> fm2]}
         ELSE {[entrance |-> None, exit_coords |-> None,
                height_map |-> hm, feature_map |-> fm]}
    ELSE LET fp == farthest_pair(rs)
             er == rs[fp[1] + 1]
             xr == rs[fp[2] + 1]
         IN  {LET hm1 == [hm EXCEPT ![e] = Max(1, hm[e])]
                  hm2 == [hm1 EXCEPT ![x] = 1]
                  fm1 == [fm EXCEPT ![e] = FEATURE_ENTRANCE]
                  fm2 == [fm1 EXCEPT ![x] = FEATURE_EXIT]
                  lowered == {<<x[1] + d[1], x[2] + d[2]>> : d \in Offsets8}
                  hm3 == [c \in Cells |->
                            IF c \in lowered /\ c \in dng /\ c # e
                            THEN Max(1, hm2[c] \div 2) ELSE hm2[c]]
              IN  [entrance |-> e, exit_coords |-> x,
                   height_map |-> hm3, feature_map |-> fm2]
                : e \in {<<y, xx>> : y \in InnerDraws(er[2], er[4]),
                                     xx \in InnerDraws(er[1], er[3])},
                  x \in {<<y, xx>> : y \in InnerDraws(xr[2], xr[4]),
                                     xx \in InnerDraws(xr[1], xr[3])}}

\* ---------------------------------------------------------- find_path_bfs

\* "height_map[y,x] if height_map[y,x]>0 else 1"
EffHeight(hm, c) == IF hm[c] > 0 THEN hm[c] ELSE 1

\* A variant of the step test without the elevation limit.
TraversableAnyHeight(dng, hm, cur, n, mhd) == IsFloor(dng, n[1], n[2])

\* Whether the search steps from cur to its neighbour n.
Traversable(dng, hm, cur, n, mhd) ==
    /\ IsFloor(dng, n[1], n[2])
    /\ Abs(EffHeight(hm, n) - EffHeight(hm, cur)) <= mhd

\* One neighbour of cur, in direction k, tried by the search.
Visit(st, dng, hm, cur, k, mhd) ==
    LET n == <<cur[1] + Neighbours4[k][1], cur[2] + Neighbours4[k][2]>>
    IN  IF IsFloor(dng, n[1], n[2]) /\ n \notin st.visited
           /\ Traversable(dng, hm, cur, n, mhd)
        THEN [queue |-> Append(st.queue, n),
              visited |-> st.visited \cup {n},
              parent |-> (n :> cur) @@ st.parent]
        ELSE st

\* The search loop: pops the queue's head, stops at exit_coords, else tries
\* the four neighbours in the order up, down, left, right.
RECURSIVE BfsLoop(_, _, _, _, _)
BfsLoop(st, dng, hm, x, mhd) ==
    IF st.queue = <<>>
    THEN [path_found |-> FALSE, visited |-> st.visited, parent |-> st.parent]
    ELSE LET cur == Head(st.queue)
             st0 == [st EXCEPT !.queue = Tail(st.queue)]
         IN  IF cur = x
             THEN [path_found |-> TRUE, visited |-> st.visited,
                   parent |-> st.parent]
             ELSE BfsLoop(Visit(Visit(Visit(Visit(st0, dng, hm, cur, 1, mhd),
                                            dng, hm, cur, 2, mhd),
                                      dng, hm, cur, 3, mhd),
                                dng, hm, cur, 4, mhd),
                          dng, hm, x, mhd)

\* The cells from exit_coords back to the entrance along the parent pointers,
\* the entrance excluded.
RECURSIVE BackPath(_, _, _)
BackPath(parent, curr, e) ==
    IF curr = e THEN <<>> ELSE <<curr>> \o BackPath(parent, parent[curr], e)

\* A variant that leaves the walk in exit-to-entrance order.
NotReversed(s) == s

\* list.reverse().
Reverse(s) == [i \in 1 .. Len(s) |-> s[Len(s) + 1 - i]]

\* A variant of the report that leaves out the neighbour to the right.
RECURSIVE ProblematicWithoutRight(_, _, _, _, _)
ProblematicWithoutRight(cells, visited, dng, hm, mhd) ==
    IF cells = <<>> THEN <<>>
    ELSE LET cur == Head(cells)
             edge(k) ==
                LET n == <<cur[1] + Neighbours4[k][1], cur[2] + Neighbours4[k][2]>>
                IN  IF IsFloor(dng, n[1], n[2]) /\ n \notin visited
                       /\ Abs(EffHeight(hm, n) - EffHeight(hm, cur)) > mhd
                    THEN <<<<cur, n, Abs(EffHeight(hm, n) - EffHeight(hm, cur))>>>>
                    ELSE <<>>
         IN  edge(1) \o edge(2) \o edge(3)
               \o ProblematicWithoutRight(Tail(cells), visited, dng, hm, mhd)

\* The edges find_path_bfs reports when the search fails: from each visited
\* cell, row-major, to each unvisited floor neighbour whose elevation differs
\* by more than mhd.
RECURSIVE ProblematicFrom(_, _, _, _, _)
ProblematicFrom(cells, visited, dng, hm, mhd) ==
    IF cells = <<>> THEN <<>>
    ELSE LET cur == Head(cells)
             edge(k) ==
                LET n == <<cur[1] + Neighbours4[k][1], cur[2] + Neighbours4[k][2]>>
                IN  IF IsFloor(dng, n[1], n[2]) /\ n \notin visited
                       /\ Abs(EffHeight(hm, n) - EffHeight(hm, cur)) > mhd
                    THEN <<<<cur, n, Abs(EffHeight(hm, n) - EffHeight(hm, cur))>>>>
                    ELSE <<>>
         IN  edge(1) \o edge(2) \o edge(3) \o edge(4)
               \o ProblematicFrom(Tail(cells), visited, dng, hm, mhd)

\* A variant of the tagging that tags every cell the path walked back visits.
TagPathOverwriting(fm, onpath, e, x) ==
    LET fm1 == [c \in Cells |-> IF c \in onpath THEN FEATURE_PATH ELSE fm[c]]
        fm2 == [fm1 EXCEPT ![e] = FEATURE_ENTRANCE]
    IN  [fm2 EXCEPT ![x] = FEATURE_EXIT]

\* The tagging of a found path: the cells visited on the way back from the
\* exit that are tagged FEATURE_NONE get FEATURE_PATH, then the entrance and
\* the exit get their tags.
TagPath(fm, onpath, e, x) ==
    LET fm1 == [c \in Cells |->
                  IF c \in onpath /\ fm[c] = FEATURE_NONE
                  THEN FEATURE_PATH ELSE fm[c]]
        fm2 == [fm1 EXCEPT ![e] = FEATURE_ENTRANCE]
    IN  [fm2 EXCEPT ![x] = FEATURE_EXIT]

\* find_path_bfs for an entrance that is a floor cell (every caller in the
\* script passes one): the path or None, the problematic points or None, and
\* the feature field as the call leaves it.
find_path_bfs(dng, hm, fm, e, x, mhd) ==
    IF e = None \/ x = None
    THEN [path |-> None, problematic_points |-> None, feature_map |-> fm]
    ELSE LET r == BfsLoop([queue |-> <<e>>, visited |-> {e}, parent |-> <<>>],
                          dng, hm, x, mhd)
         IN  IF ~r.path_found
             THEN [path |-> None,
                   problematic_points |->
                       ProblematicFrom(RowMajor(r.visited \cap dng), r.visited,
                                       dng, hm, mhd),
                   feature_map |-> fm]
             ELSE LET back == BackPath(r.parent, x, e)
                      onpath == {back[k] : k \in 1 .. Len(back)}
                  IN  [path |-> Reverse(back \o <<e>>),
                       problematic_points |-> None,
                       feature_map |-> TagPath(fm, onpath, e, x)]

\* ------------------------------------------------ adjust_heights_for_path

\* The amount one offending edge moves each endpoint by.
adjustment(actual_diff, mhd) == (actual_diff - mhd + 1) \div 2

\* One entry of problematic_points applied to the elevation field.
AdjustEdge(hm, pt, mhd) ==
    LET a == pt[1]
        b == pt[2]
        h1 == EffHeight(hm, a)
        h2 == EffHeight(hm, b)
        actual_diff == Abs(h1 - h2)
    IN  IF actual_diff > mhd
        THEN LET adj == adjustment(actual_diff, mhd)
                 new_h1 == IF h1 < h2 THEN h1 + adj ELSE h1 - adj
                 new_h2 == IF h1 < h2 THEN h2 - adj ELSE h2 + adj
                 hm1 == [hm EXCEPT ![a] = Max(1, new_h1)]
             IN  [hm1 EXCEPT ![b] = Max(1, new_h2)]
        ELSE hm

RECURSIVE adjust_heights_for_path(_, _, _)
adjust_heights_for_path(hm, points, mhd) ==
    IF points = <<>> THEN hm
    ELSE adjust_heights_for_path(AdjustEdge(hm, Head(points), mhd),
                                 Tail(points), mhd)

\* ----------------------------------------------------- ensure_path_exists

\* A variant of the forced adjustment without the floor test.
ForceFlattenAllAround(hm, dng, e, x) ==
    LET around(c) == {<<c[1] + d[1], c[2] + d[2]>> : d \in Offsets8}
        flat == {e, x} \cup around(e) \cup around(x)
    IN  [c \in Cells |-> IF c \in flat THEN 1 ELSE hm[c]]

\* The forced adjustment of the round that found neither a path nor an
\* offending edge: the entrance, the exit and the floor cells among their
\* eight neighbours get elevation 1.
ForceFlatten(hm, dng, e, x) ==
    LET around(c) == {<<c[1] + d[1], c[2] + d[2]>> : d \in Offsets8}
        flat == {e, x} \cup {c \in around(e) \cup around(x) : c \in dng}
    IN  [c \in Cells |-> IF c \in flat THEN 1 ELSE hm[c]]

\* ------------------------------------------------------ generate_monsters

\* Twice the value of each FEATURE_MONSTER_* constant: FEATURE_ENTRANCE/2,
\* FEATURE_BRIDGE, FEATURE_TREASURE/2 and 1.
MonsterKey2(tier) ==
    CASE tier = "weak" -> FEATURE_ENTRANCE
      [] tier = "normal" -> 2 * FEATURE_BRIDGE
      [] tier = "strong" -> FEATURE_TREASURE
      [] tier = "boss" -> 2 * FEATURE_MONSTER_BOSS

\* A variant of the stored monster tag that collides with the entrance tag.
StoredTagEntrance(tier) == FEATURE_ENTRANCE

\* What the integer array keeps of "feature_map[y, x] = monster_type".
StoredTag(tier) == MonsterKey2(tier) \div 2

\* The MONSTER_TYPES literal, its entries in order, each under twice its key.
MONSTER_TYPES_entries ==
    << [key2 |-> MonsterKey2("weak"), tier |-> "weak",
        names |-> <<"goblin", "bat", "rat", "slime", "skeleton">>,
        level_range |-> <<1, 3>>, hp_range |-> <<5, 15>>,
        attack_range |-> <<1, 4>>, symbol |-> "m"],
       [key2 |-> MonsterKey2("normal"), tier |-> "normal",
        names |-> <<"orc", "wolf", "spider", "zombie", "kobold">>,
        level_range |-> <<3, 6>>, hp_range |-> <<15, 35>>,
        attack_range |-> <<3, 8>>, symbol |-> "M"],
       [key2 |-> MonsterKey2("strong"), tier |-> "strong",
        names |-> <<"ogre", "troll", "minotaur", "gargoyle", "lich">>,
        level_range |-> <<6, 10>>, hp_range |-> <<35, 70>>,
        attack_range |-> <<8, 15>>, symbol |-> "S"],
       [key2 |-> MonsterKey2("boss"), tier |-> "boss",
        names |-> <<"dragon", "demon lord", "lich king", "ancient golem",
                    "queen of night">>,
        level_range |-> <<10, 15>>, hp_range |-> <<70, 150>>,
        attack_range |-> <<15, 25>>, symbol |-> "B"] >>

\* MONSTER_TYPES[monster_type]: of the entries with an equal key the literal
\* keeps the last one's value.
MONSTER_TYPES(tier) ==
    LET ks == {k \in 1 .. Len(MONSTER_TYPES_entries) :
                 MONSTER_TYPES_entries[k].key2 = MonsterKey2(tier)}
    IN  MONSTER_TYPES_entries[CHOOSE k \in ks : \A m \in ks : m <= k]

\* The FEATURE_NAMES literal, its entries in order, each under twice its key.
FEATURE_NAMES_entries ==
    << <<2 * FEATURE_NONE, "normal">>, <<2 * FEATURE_TRAP, "trap">>,
       <<2 * FEATURE_SECRET_HINT, "secret hint">>,
       <<2 * FEATURE_OBSTACLE, "obstacle">>, <<2 * FEATURE_BRIDGE, "bridge">>,
       <<2 * FEATURE_ENTRANCE, "entrance">>, <<2 * FEATURE_EXIT, "exit">>,
       <<2 * FEATURE_PATH, "path">>, <<2 * FEATURE_TREASURE, "treasure">>,
       <<MonsterKey2("weak"), "weak monster">>,
       <<MonsterKey2("normal"), "normal monster">>,
       <<MonsterKey2("strong"), "strong monster">>,
       <<MonsterKey2("boss"), "boss monster">> >>

\* FEATURE_NAMES[key], key2 twice the key: the last entry of an equal key.
FEATURE_NAMES(key2) ==
    LET ks == {k \in 1 .. Len(FEATURE_NAMES_entries) :
                 FEATURE_NAMES_entries[k][1] = key2}
    IN  FEATURE_NAMES_entries[CHOOSE k \in ks : \A m \in ks : m <= k][2]

\* The values a random.randint(lo, hi) of create_monster is drawn from, and
\* the names: all of them, or the ends, or the low end only.
StatDraws(range) ==
    CASE cfg.stat_draws = "all" -> range[1] .. range[2]
      [] cfg.stat_draws = "ends" -> {range[1], range[2]}
      [] OTHER -> {range[1]}

NameDraws(names) ==
    {names[k] : k \in 1 .. (IF cfg.stat_draws = "all" THEN Len(names) ELSE 1)}

\* The record create_monster returns (its constant description left out); tier
\* keeps the monster_type it was called with.
create_monster(tier, y, x) ==
    LET monster_info == MONSTER_TYPES(tier)
    IN  {[name |-> name, type |-> FEATURE_NAMES(MonsterKey2(tier)), level |-> level,
          hp |-> hp, attack |-> attack, position |-> <<x, y>>,
          symbol |-> monster_info.symbol, tier |-> tier]
           : name \in NameDraws(monster_info.names),
             level \in StatDraws(monster_info.level_range),
             hp \in StatDraws(monster_info.hp_range),
             attack \in StatDraws(monster_info.attack_range)}

\* A variant of the safe zone test that leaves the exit out.
is_safe_zone_entrance_only(y, x, e, xc) ==
    e # None /\ Abs(y - e[1]) <= safe_zone_radius
             /\ Abs(x - e[2]) <= safe_zone_radius

is_safe_zone(y, x, e, xc) ==
    \/ e # None /\ Abs(y - e[1]) <= safe_zone_radius
                /\ Abs(x - e[2]) <= safe_zone_radius
    \/ xc # None /\ Abs(y - xc[1]) <= safe_zone_radius
                 /\ Abs(x - xc[2]) <= safe_zone_radius

\* "max(1, int(room_area * monster_density / 20))", the density in percent.
monster_count(room_area) == Max(1, (room_area * cfg.monster_density) \div 2000)

\* The tiers random.choices can return under the weights of the room's size.
TierDraws(room_area) ==
    IF room_area > 150 THEN {"weak", "normal", "strong", "boss"}
    ELSE IF room_area > 100 THEN {"weak", "normal", "strong"}
    ELSE {"weak", "normal"}

treasure_nearby(fm, y, x) ==
    \E dy \in -2 .. 2, dx \in -2 .. 2 :
        InBounds(y + dy, x + dx) /\ fm[<<y + dy, x + dx>>] = FEATURE_TREASURE

\* One iteration of a room's placement loop from state s = [fm, monsters,
\* placed_count, has_boss]: the states it can lead to.
RoomIteration(s, r, e, xc) ==
    LET room_area == r[3] * r[4]
    IN  UNION {
          IF (s.fm[<<y, x>>] # FEATURE_NONE /\ s.fm[<<y, x>>] # FEATURE_PATH)
             \/ is_safe_zone(y, x, e, xc)
          THEN {s}
          ELSE LET boss_first == s.has_boss /\ s.placed_count = 0
                   drawn == IF boss_first THEN {"boss"} ELSE TierDraws(room_area)
                   tiers == IF treasure_nearby(s.fm, y, x)
                            THEN UNION {IF b THEN {"strong", "boss"} ELSE drawn
                                          : b \in Roll(70)}
                            ELSE drawn
               IN  UNION {{[fm |-> [s.fm EXCEPT ![<<y, x>>] = StoredTag(t)],
                            monsters |-> Append(s.monsters, m),
                            placed_count |-> s.placed_count + 1,
                            has_boss |-> IF boss_first THEN FALSE ELSE s.has_boss]
                             : m \in create_monster(t, y, x)}
                            : t \in tiers}
          : x \in (IF r[3] > 2 THEN r[1] + 1 .. r[1] + r[3] - 2 ELSE {r[1]}),
            y \in (IF r[4] > 2 THEN r[2] + 1 .. r[2] + r[4] - 2 ELSE {r[2]})}

\* A room's placement loop: every iteration counts one attempt, so after k
\* iterations all running states share attempts = k.  The states the loop can
\* end in: placed_count reached monster_count, or the attempts ran out.  (An
\* iteration that leaves the running states and the finished ones as they
\* are does so in every later round too, so the rounds left are not
\* computed.)
RECURSIVE RoomLoop(_, _, _, _, _, _)
RoomLoop(k, active, done, r, e, xc) ==
    IF k = monster_attempts \/ active = {}
    THEN done \cup active
    ELSE LET succ == UNION {RoomIteration(s, r, e, xc) : s \in active}
             full == {s \in succ : s.placed_count >= monster_count(r[3] * r[4])}
         IN  IF succ = active \/ (succ \ full = active /\ full \subseteq done)
             THEN done \cup active
             ELSE RoomLoop(k + 1, succ \ full, done \cup full, r, e, xc)

\* The loop over the rooms, from room i on, for the <<fm, monsters>> pairs S.
RECURSIVE RoomsLoop(_, _, _, _, _)
RoomsLoop(i, S, rs, e, xc) ==
    IF i > Len(rs) THEN S
    ELSE LET r == rs[i]
             start == {[fm |-> p[1], monsters |-> p[2], placed_count |-> 0,
                        has_boss |-> b /\ r[3] * r[4] > 100]
                         : p \in S, b \in Roll(cfg.boss_room_prob)}
             ends == RoomLoop(0, start, {}, r, e, xc)
         IN  RoomsLoop(i + 1, {<<s.fm, s.monsters>> : s \in ends}, rs, e, xc)

corridor_monster_prob == 5

\* The scan of all cells, row-major, that may put a weak or normal monster on
\* a floor cell still tagged none and outside the safe zones.
RECURSIVE CorridorMonsters(_, _, _, _, _)
CorridorMonsters(cells, S, dng, e, xc) ==
    IF cells = <<>> THEN S
    ELSE LET c == Head(cells)
             next(p) ==
                IF c \in dng /\ p[1][c] = FEATURE_NONE
                   /\ ~is_safe_zone(c[1], c[2], e, xc)
                THEN UNION {
                       IF b
                       THEN UNION {{<<[p[1] EXCEPT ![c] = StoredTag(t)],
                                      Append(p[2], m)>>
                                      : m \in create_monster(t, c[1], c[2])}
                                     : t \in {"weak", "normal"}}
                       ELSE {p}
                       : b \in Roll(corridor_monster_prob)}
                ELSE {p}
         IN  CorridorMonsters(Tail(cells), UNION {next(p) : p \in S}, dng, e, xc)

\* The <<feature_map, monsters>> pairs generate_monsters can end with.  The
\* scan leaves a pair as it is at every cell its test rejects, and the test
\* at a cell reads that cell's tag only, which no other step of the scan
\* writes: each pair is scanned over the cells that pass the test.
generate_monsters(dng, rs, fm, e, xc) ==
    UNION {CorridorMonsters(
               RowMajor({c \in dng : /\ p[1][c] = FEATURE_NONE
                                     /\ ~is_safe_zone(c[1], c[2], e, xc)}),
               {p}, dng, e, xc)
             : p \in RoomsLoop(1, {<<fm, <<>>>>}, rs, e, xc)}

\* One iteration of the placement loop.
PlaceRoom ==
    /\ pc = "place"
    /\ Len(rooms) < cfg.room_count
    /\ attempts < max_attempts_rooms
    /\ \E w \in cfg.room_min .. cfg.room_max - 1,
          h \in cfg.room_min .. cfg.room_max - 1 :
         \E x \in 1 .. cfg.width - w - 2, y \in 1 .. cfg.height - h - 2 :
            LET too_close == \E i \in 1 .. Len(rooms) :
                    TooClose(x, y, w, h, rooms[i], cfg.min_room_distance)
            IN  /\ attempts' = attempts + 1
                /\ IF too_close
                   THEN UNCHANGED <<dungeon, rooms>>
                   ELSE /\ dungeon' = dungeon \cup RoomCells(<<x, y, w, h>>)
                        /\ rooms' = Append(rooms, <<x, y, w, h>>)
    /\ UNCHANGED <<cfg, pc, dungeon_attempt, corridors, mst_edges, extra_edges, height_map,
                   feature_map, entrance, exit_coords, attempt, problematic_points, path,
                   monsters, artifacts>>
    /\ UNCHANGED finalVars

\* A variant that leaves the placement loop at any time.
PlacementDoneEarly ==
    /\ pc = "place"
    /\ attempts' = 0
    /\ pc' = "placed"
    /\ UNCHANGED <<cfg, dungeon_attempt, dungeon, rooms, corridors, mst_edges, extra_edges, height_map,
                   feature_map, entrance, exit_coords, attempt, problematic_points, path,
                   monsters, artifacts>>
    /\ UNCHANGED finalVars

\* The placement loop's condition failing: the loop is left.  Nothing reads
\* the counter attempts after the loop, so it is 0 from here on (as is, below,
\* ensure_path_exists's attempt after its return).
PlacementDone ==
    /\ pc = "place"
    /\ ~(Len(rooms) < cfg.room_count /\ attempts < max_attempts_rooms)
    /\ attempts' = 0
    /\ pc' = "placed"
    /\ UNCHANGED <<cfg, dungeon_attempt, dungeon, rooms, corridors, mst_edges, extra_edges, height_map,
                   feature_map, entrance, exit_coords, attempt, problematic_points, path,
                   monsters, artifacts>>
    /\ UNCHANGED finalVars

\* generate_dungeon returning fewer than two rooms, and the script's
\* "if len(rooms) < 2: continue".
GenerateDungeonShort ==
    /\ pc = "placed"
    /\ Len(rooms) < 2
    /\ corridors' = <<>>
    /\ mst_edges' = <<>>
    /\ extra_edges' = <<>>
    /\ pc' = "continue"
    /\ UNCHANGED <<cfg, dungeon_attempt, attempts, dungeon, rooms, height_map,
                   feature_map, entrance, exit_coords, attempt, problematic_points, path,
                   monsters, artifacts>>
    /\ UNCHANGED finalVars

\* generate_dungeon after the placement loop, with two rooms or more: the
\* corridors of the first pass and the extra ones.
GenerateDungeonConnect ==
    /\ pc = "placed"
    /\ Len(rooms) >= 2
    /\ \E o \in ConnectRooms(rooms, dungeon) :
          /\ dungeon' = o.dungeon
          /\ corridors' = o.corridors
          /\ mst_edges' = o.mst_edges
          /\ extra_edges' = o.extra_edges
    /\ pc' = "height_map"
    /\ UNCHANGED <<cfg, dungeon_attempt, attempts, rooms, height_map,
                   feature_map, entrance, exit_coords, attempt, problematic_points, path,
                   monsters, artifacts>>
    /\ UNCHANGED finalVars

GenerateHeightMap ==
    /\ pc = "height_map"
    /\ \E o \in generate_height_map(dungeon, rooms, corridors) :
          /\ height_map' = o[1]
          /\ feature_map' = o[2]
    /\ pc' = "select"
    /\ UNCHANGED <<cfg, dungeon_attempt, attempts, dungeon, rooms, corridors, mst_edges, extra_edges,
                   entrance, exit_coords, attempt, problematic_points, path, monsters, artifacts>>
    /\ UNCHANGED finalVars

\* select_entrance_exit and the script's test of its result.
SelectEntranceExit ==
    /\ pc = "select"
    /\ \E o \in select_entrance_exit(dungeon, rooms, height_map, feature_map) :
          /\ entrance' = o.entrance
          /\ exit_coords' = o.exit_coords
          /\ height_map' = o.height_map
          /\ feature_map' = o.feature_map
          /\ pc' = IF o.entrance = None \/ o.exit_coords = None
                   THEN "continue" ELSE "ensure"
    /\ attempt' = 0
    /\ problematic_points' = None
    /\ UNCHANGED <<cfg, dungeon_attempt, attempts, dungeon, rooms, corridors, mst_edges, extra_edges,
                   path, monsters, artifacts>>
    /\ UNCHANGED finalVars

\* A variant of the round without the loop's bound.
EnsureRoundUnbounded ==
    /\ pc = "ensure"
    /\ \E r \in {find_path_bfs(dungeon, height_map, feature_map, entrance,
                                exit_coords, cfg.max_height_diff)} :
           IF r.path # None
           THEN /\ path' = r.path
                /\ feature_map' = r.feature_map
                /\ pc' = "monsters"
                /\ attempt' = 0
                /\ problematic_points' = None
                /\ UNCHANGED height_map
           ELSE /\ height_map' =
                      IF r.problematic_points # <<>>
                      THEN adjust_heights_for_path(height_map, r.problematic_points,
                                                   cfg.max_height_diff)
                      ELSE ForceFlatten(height_map, dungeon, entrance, exit_coords)
                /\ attempt' = attempt + 1
                /\ problematic_points' = r.problematic_points
                /\ UNCHANGED <<path, feature_map, pc>>
    /\ UNCHANGED <<cfg, dungeon_attempt, attempts, dungeon, rooms, corridors, mst_edges, extra_edges,
                   entrance, exit_coords, monsters, artifacts>>
    /\ UNCHANGED finalVars

\* One round of ensure_path_exists's loop: the search, and on failure the
\* adjustment of the reported edges or, with none reported, the forced one.
EnsureRound ==
    /\ pc = "ensure"
    /\ attempt < max_attempts
    /\ \E r \in {find_path_bfs(dungeon, height_map, feature_map, entrance,
                                exit_coords, cfg.max_height_diff)} :
           IF r.path # None
           THEN /\ path' = r.path
                /\ feature_map' = r.feature_map
                /\ pc' = "monsters"
                /\ attempt' = 0
                /\ problematic_points' = None
                /\ UNCHANGED height_map
           ELSE /\ height_map' =
                      IF r.problematic_points # <<>>
                      THEN adjust_heights_for_path(height_map, r.problematic_points,
                                                   cfg.max_height_diff)
                      ELSE ForceFlatten(height_map, dungeon, entrance, exit_coords)
                /\ attempt' = attempt + 1
                /\ problematic_points' = r.problematic_points
                /\ UNCHANGED <<path, feature_map, pc>>
    /\ UNCHANGED <<cfg, dungeon_attempt, attempts, dungeon, rooms, corridors, mst_edges, extra_edges,
                   entrance, exit_coords, monsters, artifacts>>
    /\ UNCHANGED finalVars

\* The search after the loop, and the script's "if path: ... else: retry".
EnsureFinal ==
    /\ pc = "ensure"
    /\ attempt = max_attempts
    /\ \E r \in {find_path_bfs(dungeon, height_map, feature_map, entrance,
                                exit_coords, cfg.max_height_diff)} :
           IF r.path # None
           THEN /\ path' = r.path
                /\ feature_map' = r.feature_map
                /\ pc' = "monsters"
           ELSE /\ pc' = "continue"
                /\ UNCHANGED <<path, feature_map>>
    /\ attempt' = 0
    /\ problematic_points' = None
    /\ UNCHANGED <<cfg, dungeon_attempt, attempts, dungeon, rooms, corridors, mst_edges, extra_edges,
                   height_map, entrance, exit_coords, monsters, artifacts>>
    /\ UNCHANGED finalVars

GenerateMonsters ==
    /\ pc = "monsters"
    /\ \E o \in generate_monsters(dungeon, rooms, feature_map, entrance,
                                  exit_coords) :
          /\ feature_map' = o[1]
          /\ monsters' = o[2]
    /\ pc' = "success"
    /\ UNCHANGED <<cfg, dungeon_attempt, attempts, dungeon, rooms, corridors, mst_edges, extra_edges,
                   height_map, entrance, exit_coords, attempt, problematic_points, path, artifacts>>
    /\ UNCHANGED finalVars

\* A variant of the final assignments that drops the attempt's monsters.
StoreFinalWithoutMonsters ==
    /\ pc = "success"
    /\ final_dungeon' = dungeon
    /\ final_rooms' = rooms
    /\ final_height_map' = height_map
    /\ final_feature_map' = feature_map
    /\ final_entrance' = entrance
    /\ final_exit' = exit_coords
    /\ final_path' = path
    /\ final_monsters' = <<>>
    /\ pc' = "after_loop"
    /\ UNCHANGED <<cfg, dungeon_attempt, attempts, artifacts>>
    /\ UNCHANGED attemptVars

\* The assignments to the final_ variables, and the break.
StoreFinal ==
    /\ pc = "success"
    /\ final_dungeon' = dungeon
    /\ final_rooms' = rooms
    /\ final_height_map' = height_map
    /\ final_feature_map' = feature_map
    /\ final_entrance' = entrance
    /\ final_exit' = exit_coords
    /\ final_path' = path
    /\ final_monsters' = monsters
    /\ pc' = "after_loop"
    /\ UNCHANGED <<cfg, dungeon_attempt, attempts, artifacts>>
    /\ UNCHANGED attemptVars

\* A variant of the end of a failed iteration that always starts another one.
ContinueUnbounded ==
    /\ pc = "continue"
    /\ dungeon_attempt' = dungeon_attempt + 1
    /\ pc' = "place"
    /\ attempts' = 0
    /\ dungeon' = {}
    /\ rooms' = <<>>
    /\ corridors' = <<>>
    /\ mst_edges' = <<>>
    /\ extra_edges' = <<>>
    /\ height_map' = None
    /\ feature_map' = None
    /\ entrance' = None
    /\ exit_coords' = None
    /\ attempt' = 0
    /\ problematic_points' = None
    /\ path' = None
    /\ monsters' = None
    /\ UNCHANGED <<cfg, artifacts>>
    /\ UNCHANGED finalVars

\* The end of a failed iteration: the next one starts, or the loop ends.  No
\* statement reads a variable of the failed iteration before the next one
\* assigns it, so the model clears them here.
Continue ==
    /\ pc = "continue"
    /\ dungeon_attempt' = dungeon_attempt + 1
    /\ pc' = IF dungeon_attempt + 1 < max_dungeon_attempts
             THEN "place" ELSE "after_loop"
    /\ attempts' = 0
    /\ dungeon' = {}
    /\ rooms' = <<>>
    /\ corridors' = <<>>
    /\ mst_edges' = <<>>
    /\ extra_edges' = <<>>
    /\ height_map' = None
    /\ feature_map' = None
    /\ entrance' = None
    /\ exit_coords' = None
    /\ attempt' = 0
    /\ problematic_points' = None
    /\ path' = None
    /\ monsters' = None
    /\ UNCHANGED <<cfg, artifacts>>
    /\ UNCHANGED finalVars

\* "if final_path is None: ...; exit()"
GenerationFailed ==
    /\ pc = "after_loop"
    /\ final_path = None
    /\ pc' = "failed"
    /\ UNCHANGED <<cfg, dungeon_attempt, attempts, artifacts>>
    /\ UNCHANGED attemptVars
    /\ UNCHANGED finalVars

\* ----------------------------------------------------------------- export

\* The lines convert_dungeon_to_text_map puts before the grid: the title, the
\* size, the room count, an empty line, the legend and an empty line.
TextHeader(rs) ==
    << "=== dungeon map (text) ===", "size", "rooms", "",
       "legend:", "  # : wall", "  . : floor", "  E : entrance", "  X : exit",
       "  T : trap", "  ? : secret hint", "  O : obstacle", "  B : bridge",
       "  $ : treasure", "  + : path", "  m : weak monster",
       "  M : normal monster", "  S : strong monster", "  B : boss monster",
       "" >>

\* The symbol of a floor cell tagged feature: the first branch of the if
\* chain that compares equal.
FeatureSymbol(feature) ==
    IF feature = FEATURE_ENTRANCE THEN "E"
    ELSE IF feature = FEATURE_EXIT THEN "X"
    ELSE IF feature = FEATURE_TRAP THEN "T"
    ELSE IF feature = FEATURE_SECRET_HINT THEN "?"
    ELSE IF feature = FEATURE_OBSTACLE THEN "O"
    ELSE IF feature = FEATURE_BRIDGE THEN "B"
    ELSE IF feature = FEATURE_TREASURE THEN "$"
    ELSE IF feature = FEATURE_PATH THEN "+"
    ELSE IF 2 * feature = MonsterKey2("weak") THEN MONSTER_TYPES("weak").symbol
    ELSE IF 2 * feature = MonsterKey2("normal") THEN MONSTER_TYPES("normal").symbol
    ELSE IF 2 * feature = MonsterKey2("strong") THEN MONSTER_TYPES("strong").symbol
    ELSE IF 2 * feature = MonsterKey2("boss") THEN MONSTER_TYPES("boss").symbol
    ELSE "."

\* A variant of the grid that reads the canvas shape as (width, height).
TextRowsShapeSwapped(dng, fm) ==
    [y \in 1 .. cfg.width |->
        [x \in 1 .. cfg.height |->
            IF <<y - 1, x - 1>> \notin dng THEN "#"
            ELSE FeatureSymbol(fm[<<y - 1, x - 1>>])]]

\* The grid rows, each a sequence of one-character strings.
TextRows(dng, fm) ==
    [y \in 1 .. cfg.height |->
        [x \in 1 .. cfg.width |->
            IF <<y - 1, x - 1>> \notin dng THEN "#"
            ELSE FeatureSymbol(fm[<<y - 1, x - 1>>])]]

convert_dungeon_to_text_map(dng, hm, fm, rs) ==
    [header |-> TextHeader(rs), rows |-> TextRows(dng, fm)]

\* The record convert_dungeon_to_json serialises.  Coordinates are [x, y].
\* The features entries are kept as a set here (the script lists them in the
\* order the scan first meets each tag).
convert_dungeon_to_json(dng, hm, fm, rs, p, e, xc, ms) ==
    LET floor == RowMajor(dng)
        tags == {fm[c] : c \in dng} \ {FEATURE_NONE}
        at(t) == SelectSeq(floor, LAMBDA c : fm[c] = t)
    IN  [metadata |-> [width |-> cfg.width, height |-> cfg.height,
                       room_count |-> Len(rs),
                       path_length |-> IF p # None /\ p # <<>> THEN Len(p) ELSE 0],
         entrance |-> IF e # None THEN <<e[2], e[1]>> ELSE None,
         exit |-> IF xc # None THEN <<xc[2], xc[1]>> ELSE None,
         rooms |-> [i \in 1 .. Len(rs) |->
                      [id |-> i - 1, coordinates |-> <<rs[i][1], rs[i][2]>>,
                       size |-> <<rs[i][3], rs[i][4]>>,
                       center |-> <<rs[i][1] + rs[i][3] \div 2,
                                    rs[i][2] + rs[i][4] \div 2>>,
                       area |-> rs[i][3] * rs[i][4]]],
         features |-> {[type |-> FEATURE_NAMES(2 * t), count |-> Len(at(t)),
                        locations |-> [k \in 1 .. Len(at(t)) |->
                                          <<at(t)[k][2], at(t)[k][1]>>]]
                         : t \in tags},
         terrain |-> [k \in 1 .. Len(floor) |->
                        [coordinates |-> <<floor[k][2], floor[k][1]>>,
                         height |-> hm[floor[k]],
                         feature |-> FEATURE_NAMES(2 * fm[floor[k]]),
                         passable |-> TRUE]],
         path |-> IF p # None /\ p # <<>>
                  THEN [k \in 1 .. Len(p) |-> <<p[k][2], p[k][1]>>] ELSE <<>>,
         monsters |-> IF ms # None /\ ms # <<>> THEN ms ELSE <<>>]

\* The figures of create_llm_readable_description's text.
create_llm_readable_description(dng, hm, fm, rs, p, e, xc, ms) ==
    [size |-> <<cfg.width, cfg.height>>,
     room_count |-> Len(rs),
     distance |-> IF e # None /\ xc # None
                  THEN Abs(e[2] - xc[2]) + Abs(e[1] - xc[1]) ELSE None,
     feature_counts |-> [t \in {fm[c] : c \in dng} |->
                            Cardinality({c \in dng : fm[c] = t})],
     path_length |-> IF p # None /\ p # <<>> THEN Len(p) ELSE None,
     monster_count |-> IF ms # None /\ ms # <<>> THEN Len(ms) ELSE None]

\* The export section: the three artifacts and their files.
Export ==
    /\ pc = "after_loop"
    /\ final_path # None
    /\ artifacts' =
         [text_map |-> convert_dungeon_to_text_map(
                          final_dungeon, final_height_map, final_feature_map,
                          final_rooms),
          json_data |-> convert_dungeon_to_json(
                          final_dungeon, final_height_map, final_feature_map,
                          final_rooms, final_path, final_entrance, final_exit,
                          final_monsters),
          llm_description |-> create_llm_readable_description(
                          final_dungeon, final_height_map, final_feature_map,
                          final_rooms, final_path, final_entrance, final_exit,
                          final_monsters)]
    /\ pc' = "done"
    /\ UNCHANGED <<cfg, dungeon_attempt, attempts>>
    /\ UNCHANGED attemptVars
    /\ UNCHANGED finalVars

\* ------------------------------------------------------- specifications

\* Three instances of the parameters.  NarrowCfg: a canvas one room row high
\* with one-cell corridors, every elevation and feature draw open.  TwoRowCfg:
\* two room rows and corridors one or two wide, level elevations, no feature
\* draws.  LongCfg: a canvas long enough for cells outside both safe zones,
\* three rooms, level elevations, no feature draws.
NarrowWidth == 7
TwoRowWidth == 6
LongWidth == 12

NarrowCfg ==
    [width |-> NarrowWidth, height |-> 4, room_count |-> 2, room_min |-> 1,
     room_max |-> 2, min_room_distance |-> 1, corridor_width_options |-> {1},
     extra_connection_prob |-> 35, max_height |-> 1,
     corridor_height_range |-> <<1, 3>>, obstacle_prob |-> 5,
     obstacle_height_range |-> <<1, 3>>, trap_prob_base |-> 1,
     trap_prob_corridor_center |-> 1, secret_hint_prob |-> 10,
     treasure_prob |-> 2, max_height_diff |-> 1, monster_density |-> 15,
     boss_room_prob |-> 70, stat_draws |-> "low"]

TwoRowCfg ==
    [NarrowCfg EXCEPT !.width = TwoRowWidth, !.height = 5,
                      !.corridor_width_options = {1, 2},
                      !.corridor_height_range = <<1, 1>>, !.obstacle_prob = 0,
                      !.trap_prob_base = 0, !.trap_prob_corridor_center = 0,
                      !.secret_hint_prob = 0, !.treasure_prob = 0]

LongCfg ==
    [TwoRowCfg EXCEPT !.width = LongWidth, !.height = 4, !.room_count = 3,
                      !.min_room_distance = 3]

\* The script before its first iteration.  (final_monsters, which the script
\* first binds in a successful iteration, is None until then.)
ScriptStart(c) ==
    /\ cfg = c
    /\ pc = "place"
    /\ dungeon_attempt = 0
    /\ attempts = 0
    /\ dungeon = {}
    /\ rooms = <<>>
    /\ corridors = <<>>
    /\ mst_edges = <<>>
    /\ extra_edges = <<>>
    /\ height_map = None
    /\ feature_map = None
    /\ entrance = None
    /\ exit_coords = None
    /\ attempt = 0
    /\ problematic_points = None
    /\ path = None
    /\ monsters = None
    /\ final_dungeon = None
    /\ final_rooms = None
    /\ final_path = None
    /\ final_height_map = None
    /\ final_feature_map = None
    /\ final_entrance = None
    /\ final_exit = None
    /\ final_monsters = None
    /\ artifacts = None

Init == \E c \in {NarrowCfg, TwoRowCfg, LongCfg} : ScriptStart(c)

Next ==
    \/ PlaceRoom
    \/ PlacementDone
    \/ GenerateDungeonShort
    \/ GenerateDungeonConnect
    \/ GenerateHeightMap
    \/ SelectEntranceExit
    \/ EnsureRound
    \/ EnsureFinal
    \/ GenerateMonsters
    \/ StoreFinal
    \/ Continue
    \/ GenerationFailed
    \/ Export

Spec == Init /\ [][Next]_vars

\* The script runs ensure_path_exists to its return: each search terminates
\* (it visits every cell once at most), so a round that can be taken is taken.
\* This is WF_vars(EnsureRound \/ EnsureFinal) written out: one of the two is
\* enabled exactly when pc = "ensure", both change vars, and no other action
\* of Next leaves a state with pc = "ensure".
InEnsurePathExists == pc = "ensure"

SpecFair ==
    Spec /\ ([]<>~InEnsurePathExists \/ []<><<InEnsurePathExists>>_vars)

\* ---------------------------------------------- calls outside the script

\* select_entrance_exit called with the one room of a dungeon that
\* generate_dungeon returned with a single room (the script itself skips such
\* a dungeon): the room is any the placement loop can accept on an empty
\* canvas, and generate_height_map and select_entrance_exit follow.
SingleWidth == 7

SingleCfg ==
    [TwoRowCfg EXCEPT !.width = SingleWidth, !.height = SingleWidth,
                      !.room_count = 1, !.room_max = 4]

InitSingle ==
    \E w \in SingleCfg.room_min .. SingleCfg.room_max - 1,
       h \in SingleCfg.room_min .. SingleCfg.room_max - 1 :
      \E x \in 1 .. SingleCfg.width - w - 2, y \in 1 .. SingleCfg.height - h - 2 :
         /\ cfg = SingleCfg
         /\ pc = "height_map"
         /\ dungeon_attempt = 0
         /\ attempts = 0
         /\ dungeon = RoomCells(<<x, y, w, h>>)
         /\ rooms = << <<x, y, w, h>> >>
         /\ corridors = <<>>
         /\ mst_edges = <<>>
         /\ extra_edges = <<>>
         /\ height_map = None
         /\ feature_map = None
         /\ entrance = None
         /\ exit_coords = None
         /\ attempt = 0
         /\ problematic_points = None
         /\ path = None
         /\ monsters = None
         /\ final_dungeon = None
         /\ final_rooms = None
         /\ final_path = None
         /\ final_height_map = None
         /\ final_feature_map = None
         /\ final_entrance = None
         /\ final_exit = None
         /\ final_monsters = None
         /\ artifacts = None

NextSingle == GenerateHeightMap \/ SelectEntranceExit

SpecSingle == InitSingle /\ [][NextSingle]_vars

\* ensure_path_exists called on a dungeon of two adjacent floor cells, the
\* entrance and the exit, of any two elevations and under any limit.
AdjustMaxHeight == 10
AdjustMaxDiff == 4

EdgeA == <<1, 1>>
EdgeB == <<1, 2>>

InitAdjust ==
    \E h1 \in 1 .. AdjustMaxHeight, h2 \in 1 .. AdjustMaxHeight,
       mhd \in 0 .. AdjustMaxDiff :
         /\ cfg = [NarrowCfg EXCEPT !.width = 4, !.height = 3,
                                    !.max_height_diff = mhd]
         /\ pc = "ensure"
         /\ dungeon_attempt = 0
         /\ attempts = 0
         /\ dungeon = {EdgeA, EdgeB}
         /\ rooms = <<>>
         /\ corridors = <<>>
         /\ mst_edges = <<>>
         /\ extra_edges = <<>>
         /\ height_map = [c \in Cells |-> IF c = EdgeA THEN h1
                                          ELSE IF c = EdgeB THEN h2 ELSE 0]
         /\ feature_map = [c \in Cells |-> IF c = EdgeA THEN FEATURE_ENTRANCE
                                           ELSE IF c = EdgeB THEN FEATURE_EXIT
                                           ELSE FEATURE_NONE]
         /\ entrance = EdgeA
         /\ exit_coords = EdgeB
         /\ attempt = 0
         /\ problematic_points = None
         /\ path = None
         /\ monsters = None
         /\ final_dungeon = None
         /\ final_rooms = None
         /\ final_path = None
         /\ final_height_map = None
         /\ final_feature_map = None
         /\ final_entrance = None
         /\ final_exit = None
         /\ final_monsters = None
         /\ artifacts = None

NextAdjust == EnsureRound \/ EnsureFinal

SpecAdjust == InitAdjust /\ [][NextAdjust]_vars

\* ------------------------------------------------------------ properties

Chebyshev(a, b) == Max(Abs(a[1] - b[1]), Abs(a[2] - b[2]))

\* A path from e to x over 4-adjacent floor cells of dng whose consecutive
\* elevations in hm differ by at most mhd.
PathWithin(p, dng, hm, e, x, mhd) ==
    /\ Len(p) >= 1
    /\ p[1] = e
    /\ p[Len(p)] = x
    /\ \A k \in 1 .. Len(p) - 1 :
          /\ p[k] \in dng
          /\ p[k + 1] \in dng
          /\ Manhattan(p[k], p[k + 1]) = 1
          /\ Abs(hm[p[k]] - hm[p[k + 1]]) <= mhd

\* C1: whenever ensure_path_exists has returned a path, and in the result the
\* script keeps for export, the path starts at the entrance, ends at the
\* exit, steps between 4-adjacent floor cells, and no step changes the
\* elevation (as the elevation field then stands) by more than
\* max_height_diff.
C1_PathWithinLimit ==
    /\ pc \in {"monsters", "success"} =>
          PathWithin(path, dungeon, height_map, entrance, exit_coords,
                     cfg.max_height_diff)
    /\ final_path # None =>
          PathWithin(final_path, final_dungeon, final_height_map,
                     final_entrance, final_exit, cfg.max_height_diff)

\* A kept path of three cells or more with a step at the limit and with an
\* elevation above the floor of 1, under a limit of 1.
C1_Witness ==
    /\ final_path # None
    /\ Len(final_path) >= 3
    /\ cfg.max_height_diff = 1
    /\ \E k \in 1 .. Len(final_path) - 1 :
          Abs(final_height_map[final_path[k]]
              - final_height_map[final_path[k + 1]]) = 1

\* Two rooms d cells apart or more along x or along y.
Separated(a, b, d) ==
    \/ a[1] + a[3] + d <= b[1]
    \/ b[1] + b[3] + d <= a[1]
    \/ a[2] + a[4] + d <= b[2]
    \/ b[2] + b[4] + d <= a[2]

\* C2: every two accepted rooms are min_room_distance cells apart or more on
\* at least one axis, at every point of the placement loop and after it.
C2_RoomsSeparated ==
    \A i \in 1 .. Len(rooms) : \A j \in 1 .. Len(rooms) :
        i # j => Separated(rooms[i], rooms[j], cfg.min_room_distance)

\* The placement loop ended with three rooms after a rejected candidate,
\* under a distance of 3.
C2_Witness ==
    /\ pc = "place"
    /\ Len(rooms) = 3
    /\ Len(rooms) = cfg.room_count
    /\ attempts > Len(rooms)
    /\ cfg.min_room_distance = 3

\* C3: once select_entrance_exit has set them, and in the result kept for
\* export, the entrance and the exit are two different floor cells.
C3_EntranceExitDistinctFloor ==
    /\ entrance # None =>
          /\ exit_coords # None
          /\ entrance # exit_coords
          /\ entrance \in dungeon
          /\ exit_coords \in dungeon
    /\ final_path # None =>
          /\ final_entrance # final_exit
          /\ final_entrance \in final_dungeon
          /\ final_exit \in final_dungeon

\* An exported generation whose entrance and exit lie in different rows.
C3_Witness ==
    /\ pc = "done"
    /\ final_entrance[1] # final_exit[1]

\* The cells of the canvas that carry tag t in fm.
Tagged(fm, t) == {c \in Cells : fm[c] = t}

\* C4: after the monsters are placed, and in the result kept for export, the
\* entrance tag is on exactly the entrance cell and the exit tag on exactly
\* the exit cell.
C4_OneEntranceOneExitTag ==
    /\ pc = "success" =>
          /\ Tagged(feature_map, FEATURE_ENTRANCE) = {entrance}
          /\ Tagged(feature_map, FEATURE_EXIT) = {exit_coords}
    /\ final_path # None =>
          /\ Tagged(final_feature_map, FEATURE_ENTRANCE) = {final_entrance}
          /\ Tagged(final_feature_map, FEATURE_EXIT) = {final_exit}

\* A kept result with a path cell tagged as path and a monster placed.
C4_Witness ==
    /\ final_path # None
    /\ Tagged(final_feature_map, FEATURE_PATH) # {}
    /\ Len(final_monsters) >= 1

\* The cell of a monster record: its position is [x, y].
MonsterCell(m) == <<m.position[2], m.position[1]>>

\* C5: every monster generate_monsters returned stands on a floor cell more
\* than safe_zone_radius (3) away, in Chebyshev distance, from the entrance
\* and from the exit.
C5_MonstersOutsideSafeZones ==
    pc = "success" =>
        \A i \in 1 .. Len(monsters) :
            /\ MonsterCell(monsters[i]) \in dungeon
            /\ Chebyshev(MonsterCell(monsters[i]), entrance) > 3
            /\ Chebyshev(MonsterCell(monsters[i]), exit_coords) > 3

\* generate_monsters returned a monster in a room and one outside every room.
C5_Witness ==
    /\ pc = "success"
    /\ \E i \in 1 .. Len(monsters) : \E k \in 1 .. Len(rooms) :
          MonsterCell(monsters[i]) \in RoomCells(rooms[k])
    /\ \E i \in 1 .. Len(monsters) : \A k \in 1 .. Len(rooms) :
          MonsterCell(monsters[i]) \notin RoomCells(rooms[k])

\* C7: a round of the repair loop that adjusts the one offending edge moves
\* the lower end up and the higher end down by
\* (|h1-h2| - max_height_diff + 1) // 2, not below 1, and leaves the two ends
\* within max_height_diff of each other.
C7_RepairedEdgeWithinLimit ==
    [][(pc = "ensure" /\ attempt' = attempt + 1) =>
        LET h1 == height_map[EdgeA]
            h2 == height_map[EdgeB]
            mhd == cfg.max_height_diff
            adj == (Abs(h1 - h2) - mhd + 1) \div 2
        IN  Abs(h1 - h2) > mhd =>
              /\ height_map'[EdgeA] =
                    Max(1, IF h1 < h2 THEN h1 + adj ELSE h1 - adj)
              /\ height_map'[EdgeB] =
                    Max(1, IF h1 < h2 THEN h2 - adj ELSE h2 + adj)
              /\ Abs(height_map'[EdgeA] - height_map'[EdgeB]) <= mhd]_vars

\* C8: with one room, the entrance and the exit select_entrance_exit returns
\* are two different, adjacent cells of that room.
C8_SingleRoomPair ==
    (pc = "ensure" /\ Len(rooms) = 1) =>
        /\ entrance \in RoomCells(rooms[1])
        /\ exit_coords \in RoomCells(rooms[1])
        /\ Manhattan(entrance, exit_coords) = 1
        /\ entrance # exit_coords

\* C9: artifacts exist only after a generation that found its path, they are
\* the export of the kept result, and the kept result is either wholly unset
\* or, component by component, the state of the one attempt that found its
\* path.
C9_ExportAllOrNothing ==
    /\ artifacts # None =>
          /\ final_path # None
          /\ artifacts.json_data =
                convert_dungeon_to_json(final_dungeon, final_height_map,
                    final_feature_map, final_rooms, final_path, final_entrance,
                    final_exit, final_monsters)
          /\ artifacts.text_map =
                convert_dungeon_to_text_map(final_dungeon, final_height_map,
                    final_feature_map, final_rooms)
          /\ artifacts.llm_description =
                create_llm_readable_description(final_dungeon,
                    final_height_map, final_feature_map, final_rooms,
                    final_path, final_entrance, final_exit, final_monsters)
    /\ final_path = None =>
          /\ final_rooms = None
          /\ final_height_map = None
          /\ final_feature_map = None
          /\ final_entrance = None
          /\ final_exit = None
          /\ final_monsters = None
    /\ final_path # None =>
          /\ pc \in {"after_loop", "done"}
          /\ final_path = path
          /\ final_dungeon = dungeon
          /\ final_rooms = rooms
          /\ final_height_map = height_map
          /\ final_feature_map = feature_map
          /\ final_entrance = entrance
          /\ final_exit = exit_coords
          /\ final_monsters = monsters
          /\ PathWithin(path, dungeon, height_map, entrance, exit_coords,
                        cfg.max_height_diff)

\* The artifacts of the third attempt, after two attempts that failed, with a
\* monster in the exported record.
C9_Witness ==
    /\ artifacts # None
    /\ dungeon_attempt = 2
    /\ Len(artifacts.json_data.monsters) >= 1

\* The positions inside the body of the retry loop.
InLoop == {"place", "placed", "height_map", "select", "ensure", "monsters", "success",
           "continue"}

\* C10: the retry loop runs its body at most max_dungeon_attempts (5) times;
\* a failed attempt is followed by a new one from the placement loop on an
\* empty canvas while attempts remain; a successful attempt leaves the loop
\* for good; and after five failed attempts the script ends in its failure
\* exit, without artifacts.
C10_BoundedRetries ==
    /\ [](/\ dungeon_attempt <= max_dungeon_attempts
          /\ pc \in InLoop => dungeon_attempt < max_dungeon_attempts
          /\ final_path # None => pc \notin InLoop \cup {"failed"}
          /\ pc = "failed" => /\ dungeon_attempt = max_dungeon_attempts
                              /\ final_path = None
                              /\ artifacts = None
          /\ (pc = "after_loop" /\ final_path = None) =>
                /\ dungeon_attempt = max_dungeon_attempts
                /\ ENABLED GenerationFailed
                /\ ~ENABLED Export)
    /\ [][/\ pc = "continue" =>
               /\ dungeon_attempt' = dungeon_attempt + 1
               /\ IF dungeon_attempt + 1 < max_dungeon_attempts
                  THEN pc' = "place" /\ rooms' = <<>> /\ dungeon' = {}
                  ELSE pc' = "after_loop" /\ final_path' = None
          /\ pc # "continue" => dungeon_attempt' = dungeon_attempt
          /\ pc = "success" => pc' = "after_loop" /\ final_path' # None
          /\ (pc = "after_loop" /\ final_path = None) => pc' = "failed"
          /\ pc \notin {"failed", "done"}]_vars

\* The failure exit after five failed attempts.
C10_Witness ==
    /\ pc = "failed"
    /\ dungeon_attempt = max_dungeon_attempts
    /\ final_path = None

\* The legend symbol of a monster tier.
LegendOfTier(tier) ==
    CASE tier = "weak" -> "m"
      [] tier = "normal" -> "M"
      [] tier = "strong" -> "S"
      [] OTHER -> "B"

\* The legend symbols of a tag that generate_height_map, select_entrance_exit
\* or ensure_path_exists wrote (a trap and a secret hint are written as the
\* same number).
LegendOfTag(t) ==
    IF t = FEATURE_ENTRANCE THEN {"E"}
    ELSE IF t = FEATURE_EXIT THEN {"X"}
    ELSE IF t = FEATURE_OBSTACLE THEN {"O"}
    ELSE IF t = FEATURE_BRIDGE THEN {"B"}
    ELSE IF t = FEATURE_TREASURE THEN {"$"}
    ELSE IF t = FEATURE_PATH THEN {"+"}
    ELSE IF t = FEATURE_NONE THEN {"."}
    ELSE {"T", "?"}

\* The monsters of ms that stand on cell c.
MonstersAt(ms, c) == {i \in 1 .. Len(ms) : MonsterCell(ms[i]) = c}

\* C11: in the exported grid a wall cell is '#', a cell where a monster of
\* tier weak, normal or strong was placed is 'm', 'M' or 'S', and every other
\* floor cell carries the legend symbol of its tag.
C11_GridSymbolOfTag ==
    pc = "done" =>
        \A c \in Cells :
            LET ch == artifacts.text_map.rows[c[1] + 1][c[2] + 1]
            IN  IF c \notin final_dungeon THEN ch = "#"
                ELSE IF MonstersAt(final_monsters, c) # {}
                THEN \A i \in MonstersAt(final_monsters, c) :
                        ch = LegendOfTier(final_monsters[i].tier)
                ELSE ch \in LegendOfTag(final_feature_map[c])

\* The lines of the exported text: the header lines, then the grid rows.
TextLines(t) == t.header \o t.rows

\* C12: the exported text is its header followed by exactly `height` grid
\* lines, and every grid line is made of exactly `width` symbols of one
\* character each.
C12_GridShape ==
    pc = "done" =>
        LET lines == TextLines(artifacts.text_map)
            first == Len(TextHeader(final_rooms))
        IN  /\ Len(lines) = first + cfg.height
            /\ \A k \in 1 .. first : lines[k] = TextHeader(final_rooms)[k]
            /\ \A y \in 1 .. cfg.height :
                  /\ Len(lines[first + y]) = cfg.width
                  /\ \A x \in 1 .. cfg.width : Len(lines[first + y][x]) = 1

\* An exported grid with wall and floor symbols in one line.
C12_Witness ==
    /\ pc = "done"
    /\ \E y \in 1 .. cfg.height :
          /\ \E x \in 1 .. cfg.width : artifacts.text_map.rows[y][x] = "#"
          /\ \E x \in 1 .. cfg.width : artifacts.text_map.rows[y][x] # "#"

\* C13: the path list of the exported record is the kept path, cell by cell
\* in order and as [x, y]; it starts at the record's entrance coordinates,
\* ends at its exit coordinates, and metadata.path_length is its length.
C13_RecordPath ==
    pc = "done" =>
        LET j == artifacts.json_data
        IN  /\ Len(j.path) = Len(final_path)
            /\ \A k \in 1 .. Len(final_path) :
                  j.path[k] = <<final_path[k][2], final_path[k][1]>>
            /\ Len(j.path) >= 1
            /\ j.path[1] = j.entrance
            /\ j.path[Len(j.path)] = j.exit
            /\ j.metadata.path_length = Len(j.path)

\* An exported record whose path has interior cells.
C13_Witness ==
    /\ pc = "done"
    /\ Len(artifacts.json_data.path) >= 3
    /\ artifacts.json_data.entrance # artifacts.json_data.exit

\* C14 as stated: the exported record lists exactly room_count rooms.
C14_ExactlyRoomCount ==
    pc = "done" => Len(artifacts.json_data.rooms) = cfg.room_count

\* C14, amended: the exported record lists the rooms that were placed, one
\* entry each: at least 2 and at most room_count, as many as
\* metadata.room_count says; and the placement loop is left with fewer than
\* room_count rooms only when its max_attempts (200) tries are used up.
C14_RoomEntries ==
    /\ [](pc = "done" =>
            LET j == artifacts.json_data
            IN  /\ Len(j.rooms) = Len(final_rooms)
                /\ Len(j.rooms) >= 2
                /\ Len(j.rooms) <= cfg.room_count
                /\ j.metadata.room_count = Len(j.rooms)
                /\ \A i \in 1 .. Len(j.rooms) :
                      /\ j.rooms[i].id = i - 1
                      /\ j.rooms[i].coordinates = <<final_rooms[i][1], final_rooms[i][2]>>
                      /\ j.rooms[i].size = <<final_rooms[i][3], final_rooms[i][4]>>)
    /\ [][(pc = "place" /\ pc' = "placed") =>
            (Len(rooms) = cfg.room_count \/ attempts = max_attempts_rooms)]_vars

\* A successful generation exported with two rooms where three were asked for.
C14_Witness ==
    /\ pc = "done"
    /\ cfg.room_count = 3
    /\ Len(artifacts.json_data.rooms) = 2

\* An elevation field hm over the floor set dng: a whole number, at least 1,
\* on every floor cell and 0 on every wall cell.
ElevationsOk(hm, dng) ==
    \A c \in Cells :
        IF c \in dng THEN hm[c] \in Nat /\ hm[c] >= 1 ELSE hm[c] = 0

\* C15: whenever the attempt has an elevation field (from the return of
\* generate_height_map, through select_entrance_exit and every round of
\* ensure_path_exists, to the kept result), floor cells have elevation >= 1
\* and wall cells elevation 0.
C15_FloorElevation ==
    /\ height_map # None => ElevationsOk(height_map, dungeon)
    /\ final_height_map # None => ElevationsOk(final_height_map, final_dungeon)

\* A field after a repair round, with a floor cell above elevation 1.
C15_Witness ==
    /\ pc = "ensure"
    /\ attempt >= 1
    /\ \E c \in dungeon : height_map[c] >= 2

\* The floor cells joined to a cell of S by steps between 4-adjacent floor
\* cells.
RECURSIVE FloorComponent(_, _)
FloorComponent(S, dng) ==
    LET more == {c \in dng \ S :
                   \E k \in 1 .. 4 :
                       <<c[1] + Neighbours4[k][1], c[2] + Neighbours4[k][2]>> \in S}
    IN  IF more = {} THEN S ELSE FloorComponent(S \cup more, dng)

\* C16: when generate_dungeon has returned with two rooms or more, the cells
\* of every room are in the 4-connected floor component of the first room.
C16_RoomsInOneComponent ==
    (pc = "height_map" /\ Len(rooms) >= 2) =>
        \A i \in 1 .. Len(rooms) :
            RoomCells(rooms[i]) \subseteq FloorComponent(RoomCells(rooms[1]), dungeon)

\* ------------------------------------------- generate_dungeon on its own

\* generate_dungeon's connection phase on every room list its placement loop
\* can return on a small canvas: one-cell rooms that may touch, a corridor
\* width drawn from a single option, every remaining pair eligible for an
\* extra corridor.
ConnectWidth == 6

ConnectCfg(w) ==
    [TwoRowCfg EXCEPT !.width = ConnectWidth, !.height = 5, !.room_count = 3,
                      !.min_room_distance = 0, !.corridor_width_options = {w},
                      !.extra_connection_prob = 100]

\* The rectangles one iteration of the placement loop can draw under c.
RoomDraws(c) ==
    {<<x, y, w, h>> : x \in 1 .. c.width - c.room_min - 2,
                      y \in 1 .. c.height - c.room_min - 2,
                      w \in c.room_min .. c.room_max - 1,
                      h \in c.room_min .. c.room_max - 1}

\* The room lists of at most n rooms the placement loop can end with under c.
RECURSIVE RoomLists(_, _)
RoomLists(c, n) ==
    IF n = 0 THEN {<<>>}
    ELSE LET shorter == RoomLists(c, n - 1)
             grown == {p \in {s \in shorter : Len(s) = n - 1} \X RoomDraws(c) :
                         /\ p[2][1] <= c.width - p[2][3] - 2
                         /\ p[2][2] <= c.height - p[2][4] - 2
                         /\ \A i \in 1 .. Len(p[1]) :
                               ~TooClose(p[2][1], p[2][2], p[2][3], p[2][4],
                                         p[1][i], c.min_room_distance)}
         IN  shorter \cup {Append(p[1], p[2]) : p \in grown}

InitConnect ==
    \E w \in {1, 2} :
      \E rs \in RoomLists(ConnectCfg(w), ConnectCfg(w).room_count) \ {<<>>} :
         /\ cfg = ConnectCfg(w)
         /\ pc = "placed"
         /\ dungeon_attempt = 0
         /\ attempts = 0
         /\ dungeon = UNION {RoomCells(rs[i]) : i \in 1 .. Len(rs)}
         /\ rooms = rs
         /\ corridors = <<>>
         /\ mst_edges = <<>>
         /\ extra_edges = <<>>
         /\ height_map = None
         /\ feature_map = None
         /\ entrance = None
         /\ exit_coords = None
         /\ attempt = 0
         /\ problematic_points = None
         /\ path = None
         /\ monsters = None
         /\ final_dungeon = None
         /\ final_rooms = None
         /\ final_path = None
         /\ final_height_map = None
         /\ final_feature_map = None
         /\ final_entrance = None
         /\ final_exit = None
         /\ final_monsters = None
         /\ artifacts = None

NextConnect == GenerateDungeonShort \/ GenerateDungeonConnect

SpecConnect == InitConnect /\ [][NextConnect]_vars

\* The room indices joined to room 0 by the pairs of T (each <<dist, i, j>>).
RECURSIVE JoinedToFirst(_, _)
JoinedToFirst(S, T) ==
    LET more == {e[2] : e \in {t \in T : t[3] \in S}} \cup
                {e[3] : e \in {t \in T : t[2] \in S}}
    IN  IF more \subseteq S THEN S ELSE JoinedToFirst(S \cup more, T)

\* Whether the pairs of T join all n rooms.
Spans(T, n) == JoinedToFirst({0}, T) = 0 .. n - 1

RECURSIVE TotalDistance(_)
TotalDistance(T) ==
    IF T = {} THEN 0
    ELSE LET e == CHOOSE t \in T : TRUE IN e[1] + TotalDistance(T \ {e})

\* The edges of a list, as a set.
EdgeSet(es) == {es[k] : k \in 1 .. Len(es)}

\* C17: the pairs the first loop of generate_dungeon connected are rooms - 1
\* distinct pairs that join all rooms, and no set of pairs joining all rooms
\* has a smaller total centre distance.
C17_FirstPhaseIsMinimumTree ==
    (pc = "height_map" /\ Len(rooms) >= 2) =>
        LET all == EdgeSet(AllEdges(rooms))
            T == EdgeSet(mst_edges)
        IN  /\ Len(mst_edges) = Len(rooms) - 1
            /\ Cardinality(T) = Len(rooms) - 1
            /\ T \subseteq all
            /\ Spans(T, Len(rooms))
            /\ \A U \in SUBSET all :
                  Spans(U, Len(rooms)) => TotalDistance(T) <= TotalDistance(U)

\* The part of C17 that holds: rooms - 1 distinct pairs that join all rooms.
C17_FirstPhaseIsSpanningTree ==
    (pc = "height_map" /\ Len(rooms) >= 2) =>
        /\ Cardinality(EdgeSet(mst_edges)) = Len(rooms) - 1
        /\ Len(mst_edges) = Len(rooms) - 1
        /\ Spans(EdgeSet(mst_edges), Len(rooms))

\* C18: the pairs the second loop of generate_dungeon connected are distinct
\* pairs that the first loop did not connect, and there are
\* floor(extra_connection_prob * number of pairs the first loop left) of them.
C18_ExtraFromUnusedPairs ==
    (pc = "height_map" /\ Len(rooms) >= 2) =>
        LET all == EdgeSet(AllEdges(rooms))
            unused == all \ EdgeSet(mst_edges)
        IN  /\ EdgeSet(extra_edges) \subseteq unused
            /\ Cardinality(EdgeSet(extra_edges)) = Len(extra_edges)
            /\ Len(extra_edges) =
                  (Cardinality(unused) * cfg.extra_connection_prob) \div 100

\* The part of C18 that holds: the number of extra corridors.
C18_ExtraCount ==
    (pc = "height_map" /\ Len(rooms) >= 2) =>
        LET unused == EdgeSet(AllEdges(rooms)) \ EdgeSet(mst_edges)
        IN  /\ Cardinality(EdgeSet(extra_edges)) = Len(extra_edges)
            /\ Len(extra_edges) =
                  (Cardinality(unused) * cfg.extra_connection_prob) \div 100

\* The strips the claim describes: a leg w cells wide, all offsets 0 .. w-1.
VStrip(px, ya, yb, w) == UNION {VLine(px + o, ya, yb) : o \in 0 .. w - 1}
HStrip(py, xa, xb, w) == UNION {HLine(py + o, xa, xb) : o \in 0 .. w - 1}

\* The L- and Z-shaped corridors between <<x1, y1>> and <<x2, y2>> with every
\* leg w cells wide.
FullWidthCorridors(x1, y1, x2, y2, w) ==
    LET mids_x == IF x1 # x2 THEN Min(x1, x2) .. Max(x1, x2) ELSE {x1}
        mids_y == IF y1 # y2 THEN Min(y1, y2) .. Max(y1, y2) ELSE {y1}
    IN  {VStrip(x1, y1, y2, w) \cup HStrip(y2, x1, x2, w),
         HStrip(y1, x1, x2, w) \cup VStrip(x2, y1, y2, w)}
        \cup
        {VStrip(x1, y1, mid_y, w) \cup HStrip(mid_y, x1, mid_x, w)
           \cup VStrip(mid_x, mid_y, y2, w) \cup HStrip(y2, mid_x, x2, w)
           : mid_x \in mids_x, mid_y \in mids_y}

\* C19: the one corridor of a dungeon of two rooms, made by create_corridor
\* between the two room centres with the only width w on offer, is an L or Z
\* shape whose legs are w cells wide, within the canvas, and all of it floor.
C19_CorridorFullWidth ==
    (pc = "height_map" /\ Len(rooms) = 2) =>
        LET ctr == room_centers(rooms)
        IN  /\ Len(corridors) = 1
            /\ corridors[1] \subseteq dungeon
            /\ \E w \in cfg.corridor_width_options :
                  corridors[1] \in FullWidthCorridors(ctr[1][1], ctr[1][2],
                                                      ctr[2][1], ctr[2][2], w)

\* The floor cells that a sequence of steps reaches from a cell of S, a step
\* leading to a 4-adjacent floor cell whose elevation differs by mhd at most.
RECURSIVE RouteComponent(_, _, _, _)
RouteComponent(S, dng, hm, mhd) ==
    LET more == {c \in dng \ S :
                   \E s \in S : /\ Manhattan(c, s) = 1
                                /\ Abs(hm[c] - hm[s]) <= mhd}
    IN  IF more = {} THEN S ELSE RouteComponent(S \cup more, dng, hm, mhd)

\* Whether such a sequence leads from the entrance e to the exit x.
RouteExists(dng, hm, e, x, mhd) ==
    e \in dng /\ x \in RouteComponent({e}, dng, hm, mhd)

\* C20: every search of ensure_path_exists (each round's and the last one)
\* returns a path exactly when a sequence of 4-adjacent floor cells with
\* every elevation step within max_height_diff leads from the entrance to
\* the exit, and the path it returns then is such a sequence.
C20_FoundIffRouteExists ==
    [][pc = "ensure" =>
         /\ (path' # None) <=>
               RouteExists(dungeon, height_map, entrance, exit_coords,
                           cfg.max_height_diff)
         /\ path' # None =>
               /\ path'[1] = entrance
               /\ path'[Len(path')] = exit_coords
               /\ \A k \in 1 .. Len(path') - 1 :
                     /\ path'[k + 1] \in dungeon
                     /\ Manhattan(path'[k], path'[k + 1]) = 1
                     /\ Abs(height_map[path'[k]] - height_map[path'[k + 1]])
                            <= cfg.max_height_diff]_vars

\* A search has returned without a path and no route exists now either.
C20_Witness ==
    /\ pc = "ensure"
    /\ attempt >= 1
    /\ ~RouteExists(dungeon, height_map, entrance, exit_coords,
                    cfg.max_height_diff)

\* ------------------------------------- the edges a failed search reports

\* The pairs <<a, b>> of 4-adjacent floor cells with a reachable from e by
\* steps within mhd, b not reachable, and the elevations of a and b more
\* than mhd apart.
FrontierEdges(dng, hm, e, mhd) ==
    LET reach == RouteComponent({e}, dng, hm, mhd)
    IN  {ab \in reach \X (dng \ reach) :
            /\ Manhattan(ab[1], ab[2]) = 1
            /\ Abs(hm[ab[1]] - hm[ab[2]]) > mhd}

\* C21: the list a failed search of ensure_path_exists's loop returns holds,
\* once each and with its elevation difference, exactly the pairs <<a, b>>
\* where a is a floor cell reachable from the entrance within max_height_diff,
\* b a 4-adjacent floor cell that is not reachable, and their elevations are
\* more than max_height_diff apart; when the list is empty the exit is not in
\* the entrance's 4-connected floor component.
C21_ProblematicPointsAreFrontier ==
    [][(pc = "ensure" /\ pc' = "ensure" /\ attempt' = attempt + 1) =>
         LET pts == problematic_points'
             frontier == FrontierEdges(dungeon, height_map, entrance,
                                       cfg.max_height_diff)
         IN  /\ {<<pts[k][1], pts[k][2]>> : k \in 1 .. Len(pts)} = frontier
             /\ Len(pts) = Cardinality(frontier)
             /\ \A k \in 1 .. Len(pts) :
                   pts[k][3] = Abs(height_map[pts[k][1]] - height_map[pts[k][2]])
             /\ pts = <<>> =>
                   exit_coords \notin FloorComponent({entrance}, dungeon)]_vars

\* A failed search has reported offending edges, one of them towards the
\* right-hand neighbour.
C21_Witness ==
    /\ pc = "ensure"
    /\ attempt >= 1
    /\ \E k \in 1 .. Len(problematic_points) :
          problematic_points[k][2] = <<problematic_points[k][1][1],
                                       problematic_points[k][1][2] + 1>>

\* A failed search has reported no edge at all.
C21_WitnessEmpty ==
    /\ pc = "ensure"
    /\ attempt >= 1
    /\ problematic_points = <<>>

\* ------------------------------------------ ensure_path_exists's rounds

\* C22: ensure_path_exists returns: every search either finds a path, and
\* the function then returns at once with that path and the elevations as
\* they were, or it fails in one of at most max_attempts repair rounds, or it
\* fails as the one search after the last round; and once an attempt has its
\* path no elevation changes any more.
C22_RepairLoopTerminates ==
    /\ [](pc = "ensure" => attempt \in 0 .. max_attempts)
    /\ [][pc = "ensure" =>
            \/ /\ path' # None
               /\ pc' = "monsters"
               /\ height_map' = height_map
            \/ /\ path' = None
               /\ attempt < max_attempts
               /\ attempt' = attempt + 1
               /\ pc' = "ensure"
            \/ /\ path' = None
               /\ attempt = max_attempts
               /\ pc' = "continue"
               /\ height_map' = height_map]_vars
    /\ [][(path # None /\ path' # None) => height_map' = height_map]_vars
    /\ (pc = "ensure" ~> pc # "ensure")

\* Every repair round has been used and the last search is about to run.
C22_Witness ==
    /\ pc = "ensure"
    /\ attempt = max_attempts
    /\ path = None

\* A path has been found after one repair round or more.
C22_WitnessFoundLater ==
    /\ pc = "ensure"
    /\ attempt >= 1
    /\ RouteExists(dungeon, height_map, entrance, exit_coords,
                   cfg.max_height_diff)

\* ------------------------------------------------ the forced adjustment

\* The entrance, the exit and the floor cells among their 8 neighbours.
FlattenedCells(dng, e, x) ==
    {e, x} \cup {c \in dng : Chebyshev(c, e) = 1 \/ Chebyshev(c, x) = 1}

\* C23: a search of ensure_path_exists's loop that fails and reports no edge
\* is followed by the forced adjustment, which sets the entrance, the exit
\* and the floor cells among their 8 neighbours to elevation 1 and leaves the
\* other elevations alone, and then by exactly one more search, whose result
\* is the function's verdict.
C23_ForcedThenOneMoreSearch ==
    /\ [][(pc = "ensure" /\ pc' = "ensure" /\ attempt' = attempt + 1
             /\ problematic_points' = <<>>) =>
            height_map' =
               [c \in Cells |->
                  IF c \in FlattenedCells(dungeon, entrance, exit_coords)
                  THEN 1 ELSE height_map[c]]]_vars
    /\ [][(pc = "ensure" /\ attempt >= 1 /\ problematic_points = <<>>) =>
            pc' # "ensure"]_vars

\* ------------------------------------------- repetition of repair rounds

\* The elevation field one repair round of ensure_path_exists makes of hm
\* when its search fails: every reported edge adjusted.
RepairedField(hm) ==
    adjust_heights_for_path(
        hm,
        find_path_bfs(dungeon, hm, feature_map, entrance, exit_coords,
                      cfg.max_height_diff).problematic_points,
        cfg.max_height_diff)

\* C24: with the entrance and the exit in one 4-connected floor component,
\* the repair rounds of ensure_path_exists do not cycle among elevation
\* fields without a route: a round never leads to a field without a route
\* whose own round leads back to the field the first round started from.
C24_RepairDoesNotCycle ==
    [][(/\ pc = "ensure"
        /\ pc' = "ensure"
        /\ attempt' = attempt + 1
        /\ exit_coords \in FloorComponent({entrance}, dungeon)) =>
          ~(/\ ~RouteExists(dungeon, height_map', entrance, exit_coords,
                            cfg.max_height_diff)
            /\ RepairedField(height_map') = height_map)]_vars

\* ------------------------------------------------- tags of a found path

\* The cells of a path.
PathCells(p) == {p[k] : k \in 1 .. Len(p)}

\* C25: a search of ensure_path_exists that finds a path tags the path's
\* cells that were tagged FEATURE_NONE with FEATURE_PATH, leaves the entrance
\* and the exit with their own tags and every other cell with the tag it
\* had; a search that fails leaves the feature field as it was; so every
\* cell tagged FEATURE_PATH lies on the path of the attempt.
C25_PathTagging ==
    /\ [][pc = "ensure" =>
            IF path' # None
            THEN \A c \in Cells :
                    feature_map'[c] =
                       IF c = entrance THEN FEATURE_ENTRANCE
                       ELSE IF c = exit_coords THEN FEATURE_EXIT
                       ELSE IF c \in PathCells(path')
                               /\ feature_map[c] = FEATURE_NONE
                            THEN FEATURE_PATH
                            ELSE feature_map[c]
            ELSE feature_map' = feature_map]_vars
    /\ [](feature_map # None =>
            Tagged(feature_map, FEATURE_PATH)
               \subseteq (IF path = None THEN {} ELSE PathCells(path)))

\* A path has been found that has a cell tagged FEATURE_PATH and a cell that
\* kept another tag.
C25_Witness ==
    /\ pc = "monsters"
    /\ \E c \in PathCells(path) : feature_map[c] = FEATURE_PATH
    /\ \E c \in PathCells(path) :
          feature_map[c] \notin {FEATURE_PATH, FEATURE_ENTRANCE, FEATURE_EXIT}

\* ----------------------------------------- when the features are written

\* The tags of the feature annotation: trap and secret hint (one value in
\* the script), obstacle, bridge and treasure.
AnnotationTags ==
    {FEATURE_TRAP, FEATURE_SECRET_HINT, FEATURE_OBSTACLE, FEATURE_BRIDGE,
     FEATURE_TREASURE}

\* C26: no trap, secret-hint, obstacle, bridge or treasure tag is in the
\* feature field of an attempt before a search of that attempt has found a
\* path.
C26_AnnotationAfterFound ==
    (feature_map # None /\ path = None) =>
        \A c \in Cells : feature_map[c] \notin AnnotationTags

\* --------------------------------------------------- overwritten tags

\* C27: within one attempt, a cell whose tag is not FEATURE_NONE keeps that
\* tag through select_entrance_exit, the searches of ensure_path_exists and
\* generate_monsters.
C27_FirstTagKept ==
    [][(pc \in {"select", "ensure", "monsters"}) =>
         (\A c \in Cells :
            (feature_map[c] # FEATURE_NONE /\ feature_map' # None) =>
                (feature_map'[c] = feature_map[c]))]_vars

\* ------------------------------------------- who changes the elevations

\* C28: once generate_height_map has returned the elevation field of an
\* attempt, only the rounds of ensure_path_exists change an elevation:
\* select_entrance_exit, generate_monsters, the script's bookkeeping and the
\* export leave the field as it is.
C28_OnlyRepairChangesElevation ==
    [][(pc # "ensure" /\ height_map # None /\ height_map' # None) =>
          height_map' = height_map]_vars

\* --------------------------------------- generate_monsters in a large room

\* The script's loop body from generate_monsters on, for a dungeon of one
\* room of more than 100 cells with the entrance in its centre row, a room
\* of one cell with the exit in the same row, and the straight corridor
\* create_corridor draws between their centres.  generate_height_map has
\* tagged the floor cells FEATURE_TRAP but for a drawn set of cells, on the
\* route and next to it, and for the treasure it may have put down; the
\* first search of ensure_path_exists has returned the straight path and
\* tagged its untagged cells FEATURE_PATH.
BossRoomWidth == 11

BossRoom == <<1, 1, BossRoomWidth, 10>>
BossExitRoom == <<BossRoomWidth + 3, BossRoom[2] + BossRoom[4] \div 2, 1, 1>>
BossRooms == <<BossRoom, BossExitRoom>>
BossRow == BossExitRoom[2]
BossEntrance == <<BossRow, BossRoom[1] + 1>>
BossExit == <<BossRow, BossExitRoom[1]>>
BossTreasure == <<BossRow + 2, BossRoom[1] + 9>>
BossOpenCells ==
    {<<BossRow, BossRoom[1] + 5>>, <<BossRow, BossRoom[1] + 8>>,
     <<BossRow + 1, BossRoom[1] + 8>>}

BossPath ==
    [k \in 1 .. BossExit[2] - BossEntrance[2] + 1 |->
        <<BossRow, BossEntrance[2] + k - 1>>]

BossCfg(prob) ==
    [NarrowCfg EXCEPT !.width = BossRoomWidth + 5, !.height = 12,
                      !.room_min = 1, !.room_max = BossRoomWidth + 1,
                      !.boss_room_prob = prob, !.stat_draws = "ends"]

InitBoss ==
    \E prob \in {70, 100}, treasure \in BOOLEAN,
       open \in (SUBSET BossOpenCells) \ {{}} :
         /\ cfg = BossCfg(prob)
         /\ pc = "monsters"
         /\ dungeon_attempt = 0
         /\ attempts = 0
         /\ rooms = BossRooms
         /\ \E cor \in create_corridor(room_centers(BossRooms)[1][1],
                                       room_centers(BossRooms)[1][2],
                                       room_centers(BossRooms)[2][1],
                                       room_centers(BossRooms)[2][2], 1) :
               /\ corridors = <<cor>>
               /\ dungeon = RoomCells(BossRoom) \cup RoomCells(BossExitRoom)
                               \cup cor
               /\ height_map =
                     [c \in Cells |->
                        IF c \in RoomCells(BossRoom) \cup RoomCells(BossExitRoom)
                                    \cup cor
                        THEN 1 ELSE 0]
               /\ feature_map =
                     [c \in Cells |->
                        IF c = BossEntrance THEN FEATURE_ENTRANCE
                        ELSE IF c = BossExit THEN FEATURE_EXIT
                        ELSE IF c = BossTreasure /\ treasure THEN FEATURE_TREASURE
                        ELSE IF c \in open
                             THEN (IF c[1] = BossRow THEN FEATURE_PATH
                                                     ELSE FEATURE_NONE)
                        ELSE IF c \in RoomCells(BossRoom) \cup cor
                             THEN FEATURE_TRAP
                             ELSE FEATURE_NONE]
         /\ mst_edges = AllEdges(BossRooms)
         /\ extra_edges = <<>>
         /\ entrance = BossEntrance
         /\ exit_coords = BossExit
         /\ attempt = 0
         /\ problematic_points = None
         /\ path = BossPath
         /\ monsters = None
         /\ final_dungeon = None
         /\ final_rooms = None
         /\ final_path = None
         /\ final_height_map = None
         /\ final_feature_map = None
         /\ final_entrance = None
         /\ final_exit = None
         /\ final_monsters = None
         /\ artifacts = None

NextBoss == GenerateMonsters \/ StoreFinal

SpecBoss == InitBoss /\ [][NextBoss]_vars

\* C29: generate_monsters called with boss_room_prob = 1 selects every room
\* of more than 100 cells as a boss room.  In such a room with a quota of
\* one monster, a monster standing on a cell of the path is the one monster
\* the room's loop placed (the later scan of all cells only fills cells
\* tagged FEATURE_NONE, and no cell of the path is): it is of the boss tier,
\* whether a treasure is near or not.
C29_BossRoomFirstMonsterIsBoss ==
    (pc = "success" /\ cfg.boss_room_prob = 100) =>
        \A i \in 1 .. Len(rooms) :
           (/\ rooms[i][3] * rooms[i][4] > 100
            /\ monster_count(rooms[i][3] * rooms[i][4]) = 1) =>
              \A k \in 1 .. Len(monsters) :
                 MonsterCell(monsters[k])
                     \in RoomCells(rooms[i]) \cap PathCells(path) =>
                       monsters[k].tier = "boss"

\* ------------------------------------------- a monster and its tier

\* The entry the MONSTER_TYPES literal writes down for a tier, and the name
\* the FEATURE_NAMES literal writes down for it.
TierEntry(tier) ==
    MONSTER_TYPES_entries[CHOOSE k \in 1 .. Len(MONSTER_TYPES_entries) :
                             MONSTER_TYPES_entries[k].tier = tier]

TierTypeName(tier) ==
    CASE tier = "weak" -> "weak monster"
      [] tier = "normal" -> "normal monster"
      [] tier = "strong" -> "strong monster"
      [] tier = "boss" -> "boss monster"

InRange(v, range) == range[1] <= v /\ v <= range[2]

\* C30: every monster generate_monsters created has its level, hp and attack
\* inside the ranges written down for the tier it was drawn as (levels 1-3,
\* 3-6, 6-10, 10-15 for weak, normal, strong, boss), and its name and type
\* are that tier's.
C30_MonsterOfDrawnTier ==
    monsters # None =>
        \A k \in 1 .. Len(monsters) :
           LET m == monsters[k]
               info == TierEntry(m.tier)
           IN  /\ InRange(m.level, info.level_range)
               /\ InRange(m.hp, info.hp_range)
               /\ InRange(m.attack, info.attack_range)
               /\ \E n \in 1 .. Len(info.names) : m.name = info.names[n]
               /\ m.type = TierTypeName(m.tier)

====
